---- MODULE Spec2Model ----
(***************************************************************************)
(* The data-access layer of the student management system                  *)
(* (student_management_system/src/models.py) over the SQLite schema of     *)
(* database_setup.py.                                                      *)
(*                                                                         *)
(* Every repository call opens its own connection, runs its statements,    *)
(* commits and closes, so within one process a call is one atomic step on  *)
(* the store; the calls of several processes on one database file are      *)
(* modelled statement by statement further down.  The store is the five    *)
(* tables plus SQLite's sqlite_sequence table, which holds the largest key  *)
(* ever assigned in each AUTOINCREMENT table.                              *)
(*                                                                         *)
(* Values.  A Python value passed to or read from a column is modelled as  *)
(* an optional value: NULL (Python None, SQL NULL) is the empty tuple and  *)
(* a present value v is the one-element tuple <<v>>.  Callers pass text    *)
(* for TEXT columns and integers for INTEGER columns (or None), on which   *)
(* SQLite's column affinity is the identity.                               *)
(***************************************************************************)
EXTENDS Integers, Sequences, FiniteSets, TLC

VARIABLES
    departments,      \* rows of table departments
    formations,       \* rows of table formations
    students,         \* rows of table students, in rowid order
    subjects,         \* rows of table subjects
    enrollments,      \* rows of table enrollments
    sqlite_sequence,  \* per AUTOINCREMENT table: the largest key ever assigned
    last,             \* the last repository call: operation, argument, object after the call, error raised
    schema,           \* the tables the database file defines: table name -> definition
    open_connections, \* connections a repository call opened and returned without closing
    fault,            \* the storage failure the store raised in the last call, NoError if none
    dialog,           \* what the last form submit showed to the user, and what escaped from it
    processes,        \* per process: the repository call it is in, statement by statement
    write_lock        \* the process whose open transaction holds the database's write lock, 0 if none

store == <<departments, formations, students, subjects, enrollments, sqlite_sequence>>
vars == <<departments, formations, students, subjects, enrollments, sqlite_sequence, last,
          schema, open_connections, fault, dialog, processes, write_lock>>

----------------------------------------------------------------------------
(* Bounds of the model. *)

MaxDepartmentId == 2   \* keys handed out in table departments (SpecDept)
MaxFormationId == 1    \* keys handed out in table formations (SpecDept)
MaxEnrollmentId == 2   \* keys handed out in table enrollments (SpecEnrollment)
MaxStudentRows == 2    \* rows in table students
MaxScenarioId == 1     \* keys handed out in each table (Spec)
MaxFaultRows == 1      \* rows inserted in all tables together (SpecFault)
MaxOpenConnections == 1  \* connections left open at a time (SpecFault, SpecForms)
MaxFormRows == 1       \* rows stored through the forms, in all tables together (SpecForms)
MaxSubjectId == 2      \* subject keys handed out (SpecSubject)
MaxDuration == 2       \* largest duration_years a SubjectWindow is built with (SpecForms)
MaxKeys == 3           \* keys handed out in the four keyed tables together (SpecKeys)

----------------------------------------------------------------------------
(* SQL values. *)

NULL == <<>>

Some(v) == <<v>>

Opt(S) == {NULL} \cup {Some(v) : v \in S}

\* SQL comparison "a = b" in a WHERE clause or a UNIQUE index: NULL equals nothing.
SqlEq(a, b) == a # NULL /\ b # NULL /\ a = b

\* (faulty variant: the connection enforces foreign keys)
ForeignKeysEnforced_On == TRUE

\* sqlite3.connect() without "PRAGMA foreign_keys = ON": SQLite parses the
\* FOREIGN KEY clauses of the schema and does not enforce them.
ForeignKeysEnforced == FALSE

----------------------------------------------------------------------------
(* Errors. *)

NoError == [exc |-> "none", text |-> "", args |-> <<>>]

ValueError(text, args) == [exc |-> "ValueError", text |-> text, args |-> args]

\* sqlite3.IntegrityError escaping a call that has no handler for it
IntegrityError(text) == [exc |-> "sqlite3.IntegrityError", text |-> text, args |-> <<>>]

\* rowcount: the rows the write statement of the call changed (cursor.rowcount)
Call(op, arg, self, error, rowcount) ==
    [op |-> op, arg |-> arg, self |-> self, error |-> error, rowcount |-> rowcount]

\* the record of a call of a static listing method: its arguments and the
\* list it returned
Returned(op, arg, result) ==
    [op |-> op, arg |-> arg, self |-> NULL, error |-> NoError, rowcount |-> 0,
     result |-> result]

----------------------------------------------------------------------------
(* Schema constraints of table departments. *)

\* (faulty variant: a schema without the UNIQUE index)
DepartmentNameTaken_Never(name, own_id) == FALSE

\* name TEXT UNIQUE NOT NULL: a row other than the one being written has this name
DepartmentNameTaken(name, own_id) ==
    \E r \in departments : SqlEq(r.name, name) /\ r.department_id # own_id

\* the constraint the statement writing (own_id, name) violates, "" if none
DepartmentViolation(name, own_id) ==
    IF name = NULL THEN "NOT NULL constraint failed: departments.name"
    ELSE IF DepartmentNameTaken(name, own_id) THEN "UNIQUE constraint failed: departments.name"
    ELSE ""

(* Department *)

Department(name, department_id) == [department_id |-> department_id, name |-> name]

\* (faulty variant: the record gets its key before the INSERT is known to
\* have succeeded)
Department_save_KeyBeforeInsert(self) ==
    IF self.department_id = NULL
    THEN LET lastrowid == sqlite_sequence.departments + 1
             saved == [self EXCEPT !.department_id = Some(lastrowid)]
         IN IF DepartmentViolation(self.name, NULL) # ""
            THEN /\ last' = Call("Department.save", self, saved,
                                 ValueError("Department with name '{name}' already exists.", <<self.name>>), 0)
                 /\ UNCHANGED store
            ELSE /\ departments' = departments \cup {Department(self.name, Some(lastrowid))}
                 /\ sqlite_sequence' = [sqlite_sequence EXCEPT !.departments = lastrowid]
                 /\ last' = Call("Department.save", self, saved, NoError, 1)
                 /\ UNCHANGED <<formations, students, subjects, enrollments>>
    ELSE LET hit == {r \in departments : SqlEq(r.department_id, self.department_id)}
         IN IF hit # {} /\ DepartmentViolation(self.name, self.department_id) # ""
            THEN /\ last' = Call("Department.save", self, self,
                                 ValueError("Department with name '{name}' already exists.", <<self.name>>), 0)
                 /\ UNCHANGED store
            ELSE /\ departments' = (departments \ hit)
                                      \cup {[r EXCEPT !.name = self.name] : r \in hit}
                 /\ last' = Call("Department.save", self, self, NoError, Cardinality(hit))
                 /\ UNCHANGED <<formations, students, subjects, enrollments, sqlite_sequence>>

Department_save(self) ==
    IF self.department_id = NULL
    THEN \* INSERT INTO departments (name) VALUES (?)
         IF DepartmentViolation(self.name, NULL) # ""
         THEN /\ last' = Call("Department.save", self, self,
                              ValueError("Department with name '{name}' already exists.", <<self.name>>), 0)
              /\ UNCHANGED store
         ELSE LET lastrowid == sqlite_sequence.departments + 1
                  saved == [self EXCEPT !.department_id = Some(lastrowid)]
              IN /\ departments' = departments \cup {Department(self.name, Some(lastrowid))}
                 /\ sqlite_sequence' = [sqlite_sequence EXCEPT !.departments = lastrowid]
                 /\ last' = Call("Department.save", self, saved, NoError, 1)
                 /\ UNCHANGED <<formations, students, subjects, enrollments>>
    ELSE \* UPDATE departments SET name = ? WHERE department_id = ?
         LET hit == {r \in departments : SqlEq(r.department_id, self.department_id)}
         IN IF hit # {} /\ DepartmentViolation(self.name, self.department_id) # ""
            THEN /\ last' = Call("Department.save", self, self,
                                 ValueError("Department with name '{name}' already exists.", <<self.name>>), 0)
                 /\ UNCHANGED store
            ELSE /\ departments' = (departments \ hit)
                                      \cup {[r EXCEPT !.name = self.name] : r \in hit}
                 /\ last' = Call("Department.save", self, self, NoError, Cardinality(hit))
                 /\ UNCHANGED <<formations, students, subjects, enrollments, sqlite_sequence>>

\* (faulty variant: keys without AUTOINCREMENT, where the next key is the
\* largest key stored plus one)
Department_delete_KeysReused(department_id) ==
    LET hit == {r \in departments : SqlEq(r.department_id, department_id)}
        left == departments \ hit
    IN /\ departments' = left
       /\ sqlite_sequence' =
              [sqlite_sequence EXCEPT !.departments =
                  IF left = {} THEN 0
                  ELSE CHOOSE k \in {r.department_id[1] : r \in left} :
                           \A r \in left : r.department_id[1] <= k]
       /\ last' = Call("Department.delete", department_id, NULL, NoError, Cardinality(hit))
       /\ UNCHANGED <<formations, students, subjects, enrollments>>

Department_delete(department_id) ==
    LET hit == {r \in departments : SqlEq(r.department_id, department_id)}
        referenced == \E r \in hit : \E f \in formations : SqlEq(f.department_id, r.department_id)
    IN IF ForeignKeysEnforced /\ referenced
       THEN /\ last' = Call("Department.delete", department_id, NULL,
                            IntegrityError("FOREIGN KEY constraint failed"), 0)
            /\ UNCHANGED store
       ELSE /\ departments' = departments \ hit
            /\ last' = Call("Department.delete", department_id, NULL, NoError, Cardinality(hit))
            /\ UNCHANGED <<formations, students, subjects, enrollments, sqlite_sequence>>

\* fetchone() of the point lookup: the row with that key, or None
Department_get_by_id(department_id) ==
    LET rows == {r \in departments : SqlEq(r.department_id, department_id)}
    IN IF rows # {} THEN CHOOSE r \in rows : TRUE ELSE NULL

Department_get_all == departments

----------------------------------------------------------------------------
(* Schema constraints of table formations. *)

FormationViolation(name, duration_years, department_id) ==
    IF name = NULL THEN "NOT NULL constraint failed: formations.name"
    ELSE IF duration_years = NULL THEN "NOT NULL constraint failed: formations.duration_years"
    ELSE IF /\ ForeignKeysEnforced
            /\ department_id # NULL
            /\ ~ \E d \in departments : SqlEq(d.department_id, department_id)
         THEN "FOREIGN KEY constraint failed"
    ELSE ""

(* Formation *)

Formation(name, duration_years, department_id, formation_id) ==
    [formation_id |-> formation_id, name |-> name,
     duration_years |-> duration_years, department_id |-> department_id]

FormationSaveError(self, cause) ==
    ValueError("Could not save formation. Department ID {department_id} may not exist or other integrity constraint failed: {e}",
               <<self.department_id, cause>>)

Formation_save(self) ==
    LET cause == FormationViolation(self.name, self.duration_years, self.department_id)
    IN IF self.formation_id = NULL
       THEN \* INSERT INTO formations (name, duration_years, department_id) VALUES (?, ?, ?)
            IF cause # ""
            THEN /\ last' = Call("Formation.save", self, self, FormationSaveError(self, cause), 0)
                 /\ UNCHANGED store
            ELSE LET lastrowid == sqlite_sequence.formations + 1
                     saved == [self EXCEPT !.formation_id = Some(lastrowid)]
                 IN /\ formations' = formations \cup {saved}
                    /\ sqlite_sequence' = [sqlite_sequence EXCEPT !.formations = lastrowid]
                    /\ last' = Call("Formation.save", self, saved, NoError, 1)
                    /\ UNCHANGED <<departments, students, subjects, enrollments>>
       ELSE \* UPDATE formations SET name = ?, duration_years = ?, department_id = ? WHERE formation_id = ?
            LET hit == {r \in formations : SqlEq(r.formation_id, self.formation_id)}
            IN IF hit # {} /\ cause # ""
               THEN /\ last' = Call("Formation.save", self, self, FormationSaveError(self, cause), 0)
                    /\ UNCHANGED store
               ELSE /\ formations' = (formations \ hit) \cup {self : r \in hit}
                    /\ last' = Call("Formation.save", self, self, NoError, Cardinality(hit))
                    /\ UNCHANGED <<departments, students, subjects, enrollments, sqlite_sequence>>

Formation_delete(formation_id) ==
    LET hit == {r \in formations : SqlEq(r.formation_id, formation_id)}
        referenced == \E r \in hit :
                         \/ \E s \in subjects : SqlEq(s.formation_id, r.formation_id)
                         \/ \E e \in enrollments : SqlEq(e.formation_id, r.formation_id)
    IN IF ForeignKeysEnforced /\ referenced
       THEN /\ last' = Call("Formation.delete", formation_id, NULL,
                            IntegrityError("FOREIGN KEY constraint failed"), 0)
            /\ UNCHANGED store
       ELSE /\ formations' = formations \ hit
            /\ last' = Call("Formation.delete", formation_id, NULL, NoError, Cardinality(hit))
            /\ UNCHANGED <<departments, students, subjects, enrollments, sqlite_sequence>>

Formation_get_by_id(formation_id) ==
    LET rows == {r \in formations : SqlEq(r.formation_id, formation_id)}
    IN IF rows # {} THEN CHOOSE r \in rows : TRUE ELSE NULL

Formation_get_all == formations

Formation_get_by_department(department_id) ==
    {r \in formations : SqlEq(r.department_id, department_id)}

----------------------------------------------------------------------------
(* Schema constraints of table students. *)

\* Table students has no integer key: SQLite numbers its rows itself, a new
\* row after every row present (largest rowid + 1), and a full scan lists the
\* rows in that order.  The table is therefore the sequence of its rows in
\* scan order: an insert appends, an update rewrites in place, a delete
\* removes.
StudentRows == {students[i] : i \in 1..Len(students)}

\* (faulty variant: a probe that never finds the row)
StudentExists_Never(student_id) == FALSE

\* the existence probe of Student.save:
\* SELECT student_id FROM students WHERE student_id = ?, fetchone()
StudentExists(student_id) ==
    \E r \in StudentRows : SqlEq(r.student_id, student_id)

\* (faulty variant: a table whose student_id is no key)
StudentViolation_NoPrimaryKey(student_id, first_name, last_name, inserting) ==
    IF first_name = NULL THEN "NOT NULL constraint failed: students.first_name"
    ELSE IF last_name = NULL THEN "NOT NULL constraint failed: students.last_name"
    ELSE ""

\* student_id TEXT PRIMARY KEY (an ordinary rowid table: the key column
\* accepts NULL, and NULL keys do not collide), names NOT NULL
StudentViolation(student_id, first_name, last_name, inserting) ==
    IF first_name = NULL THEN "NOT NULL constraint failed: students.first_name"
    ELSE IF last_name = NULL THEN "NOT NULL constraint failed: students.last_name"
    ELSE IF inserting /\ \E r \in StudentRows : SqlEq(r.student_id, student_id)
         THEN "UNIQUE constraint failed: students.student_id"
    ELSE ""

(* Student *)

Student(student_id, first_name, last_name) ==
    [student_id |-> student_id, first_name |-> first_name, last_name |-> last_name]

StudentSaveError(self, cause) ==
    ValueError("Could not save student. Student ID '{student_id}' may already exist or another integrity constraint failed: {e}",
               <<self.student_id, cause>>)

Student_save(self) ==
    LET existing_student == StudentExists(self.student_id)
        hit == {i \in 1..Len(students) : SqlEq(students[i].student_id, self.student_id)}
        cause == StudentViolation(self.student_id, self.first_name, self.last_name,
                                  ~ existing_student)
    IN IF cause # ""
       THEN /\ last' = Call("Student.save", self, self, StudentSaveError(self, cause), 0)
            /\ UNCHANGED store
       ELSE /\ IF existing_student
               THEN \* UPDATE students SET first_name = ?, last_name = ? WHERE student_id = ?
                    students' = [i \in 1..Len(students) |->
                                    IF SqlEq(students[i].student_id, self.student_id)
                                    THEN self ELSE students[i]]
               ELSE \* INSERT INTO students (student_id, first_name, last_name) VALUES (?, ?, ?)
                    students' = Append(students, self)
            /\ last' = Call("Student.save", self, self, NoError,
                             IF existing_student THEN Cardinality(hit) ELSE 1)
            /\ UNCHANGED <<departments, formations, subjects, enrollments, sqlite_sequence>>

\* (faulty variant: a DELETE that cascades to the enrollments of the student)
Student_delete_Cascading(student_id) ==
    LET hit == {i \in 1..Len(students) : SqlEq(students[i].student_id, student_id)}
    IN /\ students' = SelectSeq(students, LAMBDA r : ~ SqlEq(r.student_id, student_id))
       /\ enrollments' = {e \in enrollments : ~ SqlEq(e.student_id, student_id)}
       /\ last' = Call("Student.delete", student_id, NULL, NoError, Cardinality(hit))
       /\ UNCHANGED <<departments, formations, subjects, sqlite_sequence>>

Student_delete(student_id) ==
    LET hit == {i \in 1..Len(students) : SqlEq(students[i].student_id, student_id)}
        referenced == hit # {} /\ \E e \in enrollments : SqlEq(e.student_id, student_id)
    IN IF ForeignKeysEnforced /\ referenced
       THEN /\ last' = Call("Student.delete", student_id, NULL,
                            IntegrityError("FOREIGN KEY constraint failed"), 0)
            /\ UNCHANGED store
       ELSE /\ students' = SelectSeq(students, LAMBDA r : ~ SqlEq(r.student_id, student_id))
            /\ last' = Call("Student.delete", student_id, NULL, NoError, Cardinality(hit))
            /\ UNCHANGED <<departments, formations, subjects, enrollments, sqlite_sequence>>

Student_get_by_id(student_id) ==
    LET rows == {r \in StudentRows : SqlEq(r.student_id, student_id)}
    IN IF rows # {} THEN CHOOSE r \in rows : TRUE ELSE NULL

Student_get_all == students

----------------------------------------------------------------------------
(* Schema constraints of table subjects. *)

SubjectViolation(name, credits, year, formation_id) ==
    IF name = NULL THEN "NOT NULL constraint failed: subjects.name"
    ELSE IF credits = NULL THEN "NOT NULL constraint failed: subjects.credits"
    ELSE IF year = NULL THEN "NOT NULL constraint failed: subjects.year"
    ELSE IF /\ ForeignKeysEnforced
            /\ formation_id # NULL
            /\ ~ \E f \in formations : SqlEq(f.formation_id, formation_id)
         THEN "FOREIGN KEY constraint failed"
    ELSE ""

(* Subject *)

Subject(name, credits, year, formation_id, subject_id) ==
    [subject_id |-> subject_id, name |-> name, credits |-> credits,
     year |-> year, formation_id |-> formation_id]

SubjectSaveError(self, cause) ==
    ValueError("Could not save subject. Formation ID {formation_id} may not exist or other integrity constraint failed: {e}",
               <<self.formation_id, cause>>)

Subject_save(self) ==
    LET cause == SubjectViolation(self.name, self.credits, self.year, self.formation_id)
    IN IF self.subject_id = NULL
       THEN \* INSERT INTO subjects (name, credits, year, formation_id) VALUES (?, ?, ?, ?)
            IF cause # ""
            THEN /\ last' = Call("Subject.save", self, self, SubjectSaveError(self, cause), 0)
                 /\ UNCHANGED store
            ELSE LET lastrowid == sqlite_sequence.subjects + 1
                     saved == [self EXCEPT !.subject_id = Some(lastrowid)]
                 IN /\ subjects' = subjects \cup {saved}
                    /\ sqlite_sequence' = [sqlite_sequence EXCEPT !.subjects = lastrowid]
                    /\ last' = Call("Subject.save", self, saved, NoError, 1)
                    /\ UNCHANGED <<departments, formations, students, enrollments>>
       ELSE \* UPDATE subjects SET name = ?, credits = ?, year = ?, formation_id = ? WHERE subject_id = ?
            LET hit == {r \in subjects : SqlEq(r.subject_id, self.subject_id)}
            IN IF hit # {} /\ cause # ""
               THEN /\ last' = Call("Subject.save", self, self, SubjectSaveError(self, cause), 0)
                    /\ UNCHANGED store
               ELSE /\ subjects' = (subjects \ hit) \cup {self : r \in hit}
                    /\ last' = Call("Subject.save", self, self, NoError, Cardinality(hit))
                    /\ UNCHANGED <<departments, formations, students, enrollments, sqlite_sequence>>

\* table grades references subjects and enrollments, and no repository call
\* ever writes it: it is empty, so it never blocks these deletes
Subject_delete(subject_id) ==
    LET hit == {r \in subjects : SqlEq(r.subject_id, subject_id)}
    IN /\ subjects' = subjects \ hit
       /\ last' = Call("Subject.delete", subject_id, NULL, NoError, Cardinality(hit))
       /\ UNCHANGED <<departments, formations, students, enrollments, sqlite_sequence>>

\* (faulty variant: a lookup that never finds its row)
Subject_get_by_id_Absent(subject_id) == NULL

Subject_get_by_id(subject_id) ==
    LET rows == {r \in subjects : SqlEq(r.subject_id, subject_id)}
    IN IF rows # {} THEN CHOOSE r \in rows : TRUE ELSE NULL

\* fetchall() of a SELECT on subjects without ORDER BY: every row of the
\* set, once, here in the order of the keys
RECURSIVE SubjectRows(_)
SubjectRows(rows) ==
    IF rows = {} THEN <<>>
    ELSE LET first == CHOOSE r \in rows : \A q \in rows : r.subject_id[1] <= q.subject_id[1]
         IN <<first>> \o SubjectRows(rows \ {first})

Subject_get_all == SubjectRows(subjects)

\* (faulty variant: the year is left out of the WHERE clause)
Subject_get_by_formation_and_year_FormationOnly(formation_id, year) ==
    SubjectRows({r \in subjects : SqlEq(r.formation_id, formation_id)})

\* SELECT ... FROM subjects WHERE formation_id = ? AND year = ?
Subject_get_by_formation_and_year(formation_id, year) ==
    SubjectRows({r \in subjects : SqlEq(r.formation_id, formation_id) /\ SqlEq(r.year, year)})

----------------------------------------------------------------------------
(* Schema constraints of table enrollments. *)

\* (faulty variant: a key that includes enrollment_year)
EnrollmentKeyRows_WithYear(self) ==
    {r \in enrollments : /\ SqlEq(r.student_id, self.student_id)
                         /\ SqlEq(r.formation_id, self.formation_id)
                         /\ SqlEq(r.enrollment_year, self.enrollment_year)}

\* the stored rows that record self collides with on the key
\* (student_id, formation_id), as the WHERE clause of the pre-check and the
\* UNIQUE index compare it: column by column with SQL equality, under which a
\* NULL column collides with nothing
EnrollmentKeyRows(self) ==
    {r \in enrollments : /\ SqlEq(r.student_id, self.student_id)
                         /\ SqlEq(r.formation_id, self.formation_id)}

\* (faulty variant: a save without the pre-check)
AlreadyEnrolled_Never(self) == FALSE

\* the duplicate pre-check of Enrollment.save:
\* SELECT enrollment_id FROM enrollments WHERE student_id = ? AND formation_id = ?
AlreadyEnrolled(self) == EnrollmentKeyRows(self) # {}

\* (faulty variant: the UPDATE collides with the rows of the same key, its own included)
EnrollmentViolation_UniqueOnUpdate(self, inserting) ==
    IF self.enrollment_year = NULL THEN "NOT NULL constraint failed: enrollments.enrollment_year"
    ELSE IF EnrollmentKeyRows(self) # {}
         THEN "UNIQUE constraint failed: enrollments.student_id, enrollments.formation_id"
    ELSE ""

\* (faulty variant: a table without its UNIQUE(student_id, formation_id) constraint)
EnrollmentViolation_NoUniqueIndex(self, inserting) ==
    IF self.enrollment_year = NULL THEN "NOT NULL constraint failed: enrollments.enrollment_year"
    ELSE ""

\* enrollment_year NOT NULL, UNIQUE(student_id, formation_id), foreign keys.
\* The UPDATE writes enrollment_year only, so it only meets the NOT NULL check.
EnrollmentViolation(self, inserting) ==
    IF self.enrollment_year = NULL THEN "NOT NULL constraint failed: enrollments.enrollment_year"
    ELSE IF inserting /\ EnrollmentKeyRows(self) # {}
         THEN "UNIQUE constraint failed: enrollments.student_id, enrollments.formation_id"
    ELSE IF /\ inserting
            /\ ForeignKeysEnforced
            /\ \/ self.student_id # NULL /\ ~ StudentExists(self.student_id)
               \/ /\ self.formation_id # NULL
                  /\ ~ \E f \in formations : SqlEq(f.formation_id, self.formation_id)
         THEN "FOREIGN KEY constraint failed"
    ELSE ""

(* Enrollment *)

Enrollment(student_id, formation_id, enrollment_year, enrollment_id) ==
    [enrollment_id |-> enrollment_id, student_id |-> student_id,
     formation_id |-> formation_id, enrollment_year |-> enrollment_year]

AlreadyEnrolledError(self) ==
    ValueError("Student {student_id} is already enrolled in formation {formation_id}.",
               <<self.student_id, self.formation_id>>)

EnrollmentSaveError(cause) ==
    ValueError("Could not save enrollment. Student/Formation ID may not exist or student already enrolled in this formation. Error: {e}",
               <<cause>>)

\* (faulty variant: an UPDATE that writes every column of the record)
EnrollmentUpdate_AllColumns(self) ==
    {IF SqlEq(r.enrollment_id, self.enrollment_id) THEN self ELSE r : r \in enrollments}

\* (faulty variant: an update that inserts the record when no row has its key)
EnrollmentUpdate_Inserting(self) ==
    IF \E r \in enrollments : SqlEq(r.enrollment_id, self.enrollment_id)
    THEN {IF SqlEq(r.enrollment_id, self.enrollment_id)
          THEN [r EXCEPT !.enrollment_year = self.enrollment_year]
          ELSE r : r \in enrollments}
    ELSE enrollments \cup {self}

\* UPDATE enrollments SET enrollment_year = ? WHERE enrollment_id = ?
EnrollmentUpdate(self) ==
    {IF SqlEq(r.enrollment_id, self.enrollment_id)
     THEN [r EXCEPT !.enrollment_year = self.enrollment_year]
     ELSE r : r \in enrollments}

Enrollment_save(self) ==
    IF self.enrollment_id = NULL
    THEN IF AlreadyEnrolled(self)
         THEN /\ last' = Call("Enrollment.save", self, self, AlreadyEnrolledError(self), 0)
              /\ UNCHANGED store
         ELSE \* INSERT INTO enrollments (student_id, formation_id, enrollment_year) VALUES (?, ?, ?)
              LET cause == EnrollmentViolation(self, TRUE)
              IN IF cause # ""
                 THEN /\ last' = Call("Enrollment.save", self, self, EnrollmentSaveError(cause), 0)
                      /\ UNCHANGED store
                 ELSE LET lastrowid == sqlite_sequence.enrollments + 1
                          saved == [self EXCEPT !.enrollment_id = Some(lastrowid)]
                      IN /\ enrollments' = enrollments \cup {saved}
                         /\ sqlite_sequence' = [sqlite_sequence EXCEPT !.enrollments = lastrowid]
                         /\ last' = Call("Enrollment.save", self, saved, NoError, 1)
                         /\ UNCHANGED <<departments, formations, students, subjects>>
    ELSE LET hit == {r \in enrollments : SqlEq(r.enrollment_id, self.enrollment_id)}
             cause == EnrollmentViolation(self, FALSE)
         IN IF hit # {} /\ cause # ""
            THEN /\ last' = Call("Enrollment.save", self, self, EnrollmentSaveError(cause), 0)
                 /\ UNCHANGED store
            ELSE /\ enrollments' = EnrollmentUpdate(self)
                 /\ last' = Call("Enrollment.save", self, self, NoError, Cardinality(hit))
                 /\ UNCHANGED <<departments, formations, students, subjects, sqlite_sequence>>

\* (faulty variant: a DELETE without its WHERE clause)
Enrollment_delete_NoWhere(enrollment_id) ==
    /\ enrollments' = {}
    /\ last' = Call("Enrollment.delete", enrollment_id, NULL, NoError, Cardinality(enrollments))
    /\ UNCHANGED <<departments, formations, students, subjects, sqlite_sequence>>

Enrollment_delete(enrollment_id) ==
    LET hit == {r \in enrollments : SqlEq(r.enrollment_id, enrollment_id)}
    IN /\ enrollments' = enrollments \ hit
       /\ last' = Call("Enrollment.delete", enrollment_id, NULL, NoError, Cardinality(hit))
       /\ UNCHANGED <<departments, formations, students, subjects, sqlite_sequence>>

Enrollment_get_by_id(enrollment_id) ==
    LET rows == {r \in enrollments : SqlEq(r.enrollment_id, enrollment_id)}
    IN IF rows # {} THEN CHOOSE r \in rows : TRUE ELSE NULL

Enrollment_get_all == enrollments

\* fetchall() of WHERE student_id = ?
Enrollment_get_by_student(student_id) ==
    {r \in enrollments : SqlEq(r.student_id, student_id)}

\* (faulty variant: the listing by formation has no WHERE clause)
Enrollment_get_by_formation_Unfiltered(formation_id) == enrollments

\* fetchall() of WHERE formation_id = ?
Enrollment_get_by_formation(formation_id) ==
    {r \in enrollments : SqlEq(r.formation_id, formation_id)}

\* (faulty variant: a lookup whose WHERE clause names the student only)
Enrollment_get_by_student_and_formation_StudentOnly(student_id, formation_id) ==
    LET rows == {r \in enrollments : SqlEq(r.student_id, student_id)}
    IN IF rows # {} THEN CHOOSE r \in rows : TRUE ELSE NULL

\* fetchone() of WHERE student_id = ? AND formation_id = ?: a row of that
\* pair, or None
Enrollment_get_by_student_and_formation(student_id, formation_id) ==
    LET rows == {r \in enrollments : /\ SqlEq(r.student_id, student_id)
                                     /\ SqlEq(r.formation_id, formation_id)}
    IN IF rows # {} THEN CHOOSE r \in rows : TRUE ELSE NULL

----------------------------------------------------------------------------
(* The schema: initialize_database(). *)

\* the six CREATE TABLE statements of initialize_database: table -> columns and constraints
TableDefinitions ==
    [departments |-> <<"department_id INTEGER PRIMARY KEY AUTOINCREMENT",
                       "name TEXT UNIQUE NOT NULL">>,
     formations  |-> <<"formation_id INTEGER PRIMARY KEY AUTOINCREMENT",
                       "name TEXT NOT NULL",
                       "duration_years INTEGER NOT NULL",
                       "department_id INTEGER",
                       "FOREIGN KEY (department_id) REFERENCES departments(department_id)">>,
     students    |-> <<"student_id TEXT PRIMARY KEY",
                       "first_name TEXT NOT NULL",
                       "last_name TEXT NOT NULL">>,
     subjects    |-> <<"subject_id INTEGER PRIMARY KEY AUTOINCREMENT",
                       "name TEXT NOT NULL",
                       "credits INTEGER NOT NULL",
                       "year INTEGER NOT NULL",
                       "formation_id INTEGER",
                       "FOREIGN KEY (formation_id) REFERENCES formations(formation_id)">>,
     enrollments |-> <<"enrollment_id INTEGER PRIMARY KEY AUTOINCREMENT",
                       "student_id TEXT",
                       "formation_id INTEGER",
                       "enrollment_year INTEGER NOT NULL",
                       "FOREIGN KEY (student_id) REFERENCES students(student_id)",
                       "FOREIGN KEY (formation_id) REFERENCES formations(formation_id)",
                       "UNIQUE(student_id, formation_id)">>,
     grades      |-> <<"grade_id INTEGER PRIMARY KEY AUTOINCREMENT",
                       "enrollment_id INTEGER",
                       "subject_id INTEGER",
                       "grade REAL",
                       "FOREIGN KEY (enrollment_id) REFERENCES enrollments(enrollment_id)",
                       "FOREIGN KEY (subject_id) REFERENCES subjects(subject_id)">>]

\* a database file that defines no table
EmptySchema == [t \in {} |-> <<>>]

\* (faulty variant: CREATE TABLE that replaces a table the file already defines)
TablesToCreate_All(sch) == DOMAIN TableDefinitions

\* CREATE TABLE IF NOT EXISTS: the statement creates the table only when the
\* file does not define a table of that name
TablesToCreate(sch) == {t \in DOMAIN TableDefinitions : t \notin DOMAIN sch}

\* the schema once the six statements have run
SchemaAfter(sch) ==
    [t \in DOMAIN sch \cup DOMAIN TableDefinitions |->
        IF t \in TablesToCreate(sch) THEN TableDefinitions[t] ELSE sch[t]]

\* A table the call creates is empty and its key counter starts over; a
\* table the file already defines keeps its definition and its rows.
initialize_database ==
    LET created == TablesToCreate(schema)
    IN /\ schema' = SchemaAfter(schema)
       /\ departments' = IF "departments" \in created THEN {} ELSE departments
       /\ formations' = IF "formations" \in created THEN {} ELSE formations
       /\ students' = IF "students" \in created THEN <<>> ELSE students
       /\ subjects' = IF "subjects" \in created THEN {} ELSE subjects
       /\ enrollments' = IF "enrollments" \in created THEN {} ELSE enrollments
       /\ sqlite_sequence' = [t \in DOMAIN sqlite_sequence |->
                                 IF t \in created THEN 0 ELSE sqlite_sequence[t]]
       /\ last' = Call("initialize_database", NULL, NULL, NoError, 0)

----------------------------------------------------------------------------
(* What a form shows. *)

\* a QMessageBox: its kind (warning, critical), title and text
MessageBox(kind, title, text, args) == [kind |-> kind, title |-> title, text |-> text, args |-> args]

NoMessageBox == MessageBox("none", "", "", <<>>)

\* The outcome of a form submit: the inputs the handler read, whether it
\* called save, the error save raised, the message box it showed and the
\* exception that left the handler.
Dialog(handler, input, called, raised, shown, escaped) ==
    [handler |-> handler, input |-> input, called |-> called, raised |-> raised,
     shown |-> shown, escaped |-> escaped]

----------------------------------------------------------------------------
(* Processes that use the same database file. *)

Processes == {1, 2}

\* A call in progress: the method, its record or argument (self, with the
\* attributes the call has assigned so far), the statement it is at (pc),
\* what its probe or pre-check fetched (existing), the write statement it
\* has executed in its open transaction, the exception it raised and the
\* rowcount of its write.
Running(op, self, pc, existing, statement, error, rowcount) ==
    [op |-> op, self |-> self, pc |-> pc, existing |-> existing, statement |-> statement,
     error |-> error, rowcount |-> rowcount]

NotCalling == Running("none", NULL, "idle", FALSE, "", NoError, 0)

----------------------------------------------------------------------------
(* The store after initialize_database() on a fresh file: every table empty. *)

Init ==
    /\ departments = {}
    /\ formations = {}
    /\ students = <<>>
    /\ subjects = {}
    /\ enrollments = {}
    /\ sqlite_sequence = [departments |-> 0, formations |-> 0, subjects |-> 0, enrollments |-> 0]
    /\ last = Call("none", NULL, NULL, NoError, 0)
    /\ schema = SchemaAfter(EmptySchema)
    /\ open_connections = 0
    /\ fault = NoError
    /\ dialog = Dialog("none", NULL, FALSE, NoError, NoMessageBox, NoError)
    /\ processes = [p \in Processes |-> NotCalling]
    /\ write_lock = 0

\* a repository call made by client code that meets no storage failure: its
\* connection is opened and closed, the schema is not touched, no form is
\* involved
ByClient ==
    /\ fault' = NoError
    /\ UNCHANGED <<schema, open_connections, dialog, processes, write_lock>>

----------------------------------------------------------------------------
(* Departments and formations: the calls a client makes, with their inputs. *)

DepartmentNames == {"Computer Science", "Mathematics"}
DepartmentIds == 1..(MaxDepartmentId + 1)
FormationNames == {"Software Engineering"}
FormationIds == 1..(MaxFormationId + 1)
Durations == {4}

DepartmentSave ==
    \E name \in Opt(DepartmentNames), department_id \in Opt(DepartmentIds) :
        /\ department_id = NULL => sqlite_sequence.departments < MaxDepartmentId
        /\ Department_save(Department(name, department_id))
        /\ ByClient

DepartmentDelete ==
    \E department_id \in Opt(DepartmentIds) : Department_delete(department_id) /\ ByClient

FormationSave ==
    \E name \in Opt(FormationNames), duration_years \in Opt(Durations),
       department_id \in Opt(DepartmentIds), formation_id \in Opt(FormationIds) :
        /\ formation_id = NULL => sqlite_sequence.formations < MaxFormationId
        /\ Formation_save(Formation(name, duration_years, department_id, formation_id))
        /\ ByClient

FormationDelete ==
    \E formation_id \in Opt(FormationIds) : Formation_delete(formation_id) /\ ByClient

NextDept == DepartmentSave \/ DepartmentDelete \/ FormationSave \/ FormationDelete

SpecDept == Init /\ [][NextDept]_vars

----------------------------------------------------------------------------
(* Students: the calls a client makes, with their inputs. *)

StudentIds == {"S1001", "S1002"}
FirstNames == {"John", "Jane"}
LastNames == {"Doe", "Doe Jr."}

StudentSave ==
    \E student_id \in Opt(StudentIds), first_name \in Opt(FirstNames), last_name \in Opt(LastNames) :
        /\ ~ StudentExists(student_id) => Len(students) < MaxStudentRows
        /\ Student_save(Student(student_id, first_name, last_name))
        /\ ByClient

StudentDelete ==
    \E student_id \in Opt(StudentIds) : Student_delete(student_id) /\ ByClient

NextStudent == StudentSave \/ StudentDelete

SpecStudent == Init /\ [][NextStudent]_vars

----------------------------------------------------------------------------
(* Enrollments: the calls a client makes, with their inputs. *)

EnrolledFormationIds == {1}
EnrollmentYears == {2023, 2024}
\* the keys a client passes: on a store that has not handed one out yet, or
\* has deleted its row, it names no row
EnrollmentIds == 1..MaxEnrollmentId

EnrollmentSave ==
    \E student_id \in Opt(StudentIds), formation_id \in Opt(EnrolledFormationIds),
       enrollment_year \in Opt(EnrollmentYears), enrollment_id \in Opt(EnrollmentIds) :
        /\ enrollment_id = NULL => sqlite_sequence.enrollments < MaxEnrollmentId
        /\ Enrollment_save(Enrollment(student_id, formation_id, enrollment_year, enrollment_id))
        /\ ByClient

EnrollmentDelete ==
    \E enrollment_id \in Opt(EnrollmentIds) : Enrollment_delete(enrollment_id) /\ ByClient

NextEnrollment == EnrollmentSave \/ EnrollmentDelete

SpecEnrollment == Init /\ [][NextEnrollment]_vars

----------------------------------------------------------------------------
(* Subjects: the calls a client makes, with their inputs. *)

SubjectFormationIds == {1, 2}
SubjectYears == {1, 2}
SubjectIds == 1..(MaxSubjectId + 1)

SubjectSave ==
    \E formation_id \in Opt(SubjectFormationIds), year \in Opt(SubjectYears),
       subject_id \in Opt(SubjectIds) :
        /\ subject_id = NULL => sqlite_sequence.subjects < MaxSubjectId
        /\ Subject_save(Subject(Some("Algorithms"), Some(6), year, formation_id, subject_id))
        /\ ByClient

SubjectDelete ==
    \E subject_id \in Opt(SubjectIds) : Subject_delete(subject_id) /\ ByClient

\* Subject.get_by_formation_and_year(formation_id, year), called by a client
SubjectListing ==
    \E formation_id \in Opt(SubjectFormationIds), year \in Opt(SubjectYears) :
        /\ last' = Returned("Subject.get_by_formation_and_year",
                            [formation_id |-> formation_id, year |-> year],
                            Subject_get_by_formation_and_year(formation_id, year))
        /\ UNCHANGED store
        /\ ByClient

NextSubject == SubjectSave \/ SubjectDelete \/ SubjectListing

SpecSubject == Init /\ [][NextSubject]_vars

----------------------------------------------------------------------------
(* The whole repository, driven with the values of the scenario that       *)
(* models.py runs as its self-test: departments, a formation in the first  *)
(* one, one student, a subject of the formation and the enrollment of the  *)
(* student in it.                                                          *)

ScenarioDepartmentIds == {1}
ScenarioFormationIds == {1}
ScenarioStudentIds == {"S1001"}
ScenarioFirstNames == {"John"}
ScenarioLastNames == {"Doe"}
ScenarioIds == 1..(MaxScenarioId + 1)
SubjectNames == {"Algorithms"}
Credits == {6}
Years == {1}
ScenarioEnrollmentYears == {2023}

SaveDepartment ==
    \E name \in DepartmentNames, department_id \in Opt(ScenarioIds) :
        /\ department_id = NULL => sqlite_sequence.departments < MaxScenarioId
        /\ Department_save(Department(Some(name), department_id))
        /\ ByClient

DeleteDepartment ==
    \E department_id \in Opt(ScenarioIds) : Department_delete(department_id) /\ ByClient

SaveFormation ==
    \E name \in FormationNames, duration_years \in Durations,
       department_id \in ScenarioDepartmentIds, formation_id \in Opt(ScenarioIds) :
        /\ formation_id = NULL => sqlite_sequence.formations < MaxScenarioId
        /\ Formation_save(Formation(Some(name), Some(duration_years),
                                    Some(department_id), formation_id))
        /\ ByClient

DeleteFormation ==
    \E formation_id \in Opt(ScenarioIds) : Formation_delete(formation_id) /\ ByClient

SaveStudent ==
    \E student_id \in ScenarioStudentIds, first_name \in ScenarioFirstNames,
       last_name \in ScenarioLastNames :
        /\ ~ StudentExists(Some(student_id)) => Len(students) < MaxStudentRows
        /\ Student_save(Student(Some(student_id), Some(first_name), Some(last_name)))
        /\ ByClient

DeleteStudent ==
    \E student_id \in Opt(ScenarioStudentIds) : Student_delete(student_id) /\ ByClient

SaveSubject ==
    \E name \in SubjectNames, credits \in Credits, year \in Years,
       formation_id \in ScenarioFormationIds, subject_id \in Opt(ScenarioIds) :
        /\ subject_id = NULL => sqlite_sequence.subjects < MaxScenarioId
        /\ Subject_save(Subject(Some(name), Some(credits), Some(year),
                                Some(formation_id), subject_id))
        /\ ByClient

DeleteSubject ==
    \E subject_id \in Opt(ScenarioIds) : Subject_delete(subject_id) /\ ByClient

SaveEnrollment ==
    \E student_id \in ScenarioStudentIds, formation_id \in ScenarioFormationIds,
       enrollment_year \in ScenarioEnrollmentYears, enrollment_id \in Opt(ScenarioIds) :
        /\ enrollment_id = NULL => sqlite_sequence.enrollments < MaxScenarioId
        /\ Enrollment_save(Enrollment(Some(student_id), Some(formation_id),
                                      Some(enrollment_year), enrollment_id))
        /\ ByClient

DeleteEnrollment ==
    \E enrollment_id \in Opt(ScenarioIds) : Enrollment_delete(enrollment_id) /\ ByClient

\* initialize_database() run again: main() runs it at every start of the
\* application, and so does the __main__ block of every module
InitializeDatabase ==
    /\ initialize_database
    /\ fault' = NoError
    /\ UNCHANGED <<open_connections, dialog, processes, write_lock>>

Next ==
    \/ SaveDepartment \/ DeleteDepartment
    \/ SaveFormation \/ DeleteFormation
    \/ SaveStudent \/ DeleteStudent
    \/ SaveSubject \/ DeleteSubject
    \/ SaveEnrollment \/ DeleteEnrollment
    \/ InitializeDatabase

Spec == Init /\ [][Next]_vars

----------------------------------------------------------------------------
(* Storage failures.  Any statement that reaches the database file can     *)
(* raise an error of the storage layer that is no constraint violation     *)
(* (sqlite3.OperationalError: the file is locked, the disk is full, a      *)
(* table is missing).  A failed call has committed nothing: the store is   *)
(* as it was.                                                              *)

\* the base class of an exception class
BaseOf(cls) ==
    CASE cls = "sqlite3.IntegrityError" -> "sqlite3.DatabaseError"
      [] cls = "sqlite3.OperationalError" -> "sqlite3.DatabaseError"
      [] cls = "sqlite3.DatabaseError" -> "sqlite3.Error"
      [] cls = "sqlite3.Error" -> "Exception"
      [] cls = "ValueError" -> "Exception"
      [] OTHER -> "BaseException"

\* "except of": the clause catches an exception of class cls
RECURSIVE IsInstance(_, _)
IsInstance(cls, of) ==
    \/ cls = of
    \/ cls # "BaseException" /\ IsInstance(BaseOf(cls), of)

OperationalError(text) == [exc |-> "sqlite3.OperationalError", text |-> text, args |-> <<>>]

\* the failures the store raises in this model
StorageFailures == {OperationalError("database is locked")}

SaveOps == {"Department.save", "Formation.save", "Student.save",
            "Subject.save", "Enrollment.save"}

\* the calls that are a delete
DeleteOps == {"Department.delete", "Formation.delete", "Student.delete",
              "Subject.delete", "Enrollment.delete"}

\* the lookups and listings
QueryOps == {"Department.get_by_id", "Department.get_by_name", "Department.get_all",
             "Formation.get_by_id", "Formation.get_all", "Formation.get_by_department",
             "Student.get_by_id", "Student.get_all",
             "Subject.get_by_id", "Subject.get_all", "Subject.get_by_formation_and_year",
             "Enrollment.get_by_id", "Enrollment.get_all", "Enrollment.get_by_student",
             "Enrollment.get_by_formation", "Enrollment.get_by_student_and_formation"}

\* The statements of a call that reach the database file, in the order the
\* call runs them.  "probe" is the SELECT a save runs before it writes:
\* the existence probe of Student.save and the duplicate pre-check of
\* Enrollment.save.
Statements(op) ==
    IF op \in {"Student.save", "Enrollment.save"} THEN <<"connect", "probe", "execute", "commit">>
    ELSE IF op \in SaveOps \cup DeleteOps THEN <<"connect", "execute", "commit">>
    ELSE <<"connect", "execute", "fetch">>

\* The statements of a call inside a "try ... finally: conn.close()".  The
\* deletes, the lookups and the listings have no try statement, and
\* Student.save runs its probe before the try.
ClosedOnError(op) ==
    IF op = "Enrollment.save" THEN {"probe", "execute", "commit"}
    ELSE IF op \in SaveOps THEN {"execute", "commit"}
    ELSE {}

\* (faulty variant: the handler of a save catches every error of the storage layer)
Handles_AnyStorageError(op, stmt, error) ==
    /\ op \in SaveOps
    /\ stmt \in ClosedOnError(op)
    /\ IsInstance(error.exc, "sqlite3.Error")

\* "except sqlite3.IntegrityError" of the try statement of a save
Handles(op, stmt, error) ==
    /\ op \in SaveOps
    /\ stmt \in ClosedOnError(op)
    /\ IsInstance(error.exc, "sqlite3.IntegrityError")

\* the ValueError the handler of a save raises for the error it caught
HandlerError(op, self, cause) ==
    CASE op = "Department.save" ->
            ValueError("Department with name '{name}' already exists.", <<self.name>>)
      [] op = "Formation.save" -> FormationSaveError(self, cause)
      [] op = "Student.save" -> StudentSaveError(self, cause)
      [] op = "Subject.save" -> SubjectSaveError(self, cause)
      [] op = "Enrollment.save" -> EnrollmentSaveError(cause)

\* the key attribute of the record of a save, and its table
KeyField(op) ==
    CASE op = "Department.save" -> "department_id"
      [] op = "Formation.save" -> "formation_id"
      [] op = "Student.save" -> "student_id"
      [] op = "Subject.save" -> "subject_id"
      [] op = "Enrollment.save" -> "enrollment_id"

TableOf(op) ==
    CASE op = "Department.save" -> "departments"
      [] op = "Formation.save" -> "formations"
      [] op = "Student.save" -> "students"
      [] op = "Subject.save" -> "subjects"
      [] op = "Enrollment.save" -> "enrollments"

\* the save takes its INSERT branch
Inserting(op, self) ==
    IF op = "Student.save" THEN ~ StudentExists(self.student_id)
    ELSE self[KeyField(op)] = NULL

\* the constraint the write statement of the save violates, "" if none (an
\* UPDATE that matches no row violates none)
WriteViolation(op, self) ==
    CASE op = "Department.save" ->
            IF self.department_id = NULL THEN DepartmentViolation(self.name, NULL)
            ELSE IF Department_get_by_id(self.department_id) # NULL
                 THEN DepartmentViolation(self.name, self.department_id)
            ELSE ""
      [] op = "Formation.save" ->
            IF self.formation_id = NULL \/ Formation_get_by_id(self.formation_id) # NULL
            THEN FormationViolation(self.name, self.duration_years, self.department_id)
            ELSE ""
      [] op = "Student.save" ->
            StudentViolation(self.student_id, self.first_name, self.last_name,
                             ~ StudentExists(self.student_id))
      [] op = "Subject.save" ->
            IF self.subject_id = NULL \/ Subject_get_by_id(self.subject_id) # NULL
            THEN SubjectViolation(self.name, self.credits, self.year, self.formation_id)
            ELSE ""
      [] op = "Enrollment.save" ->
            IF self.enrollment_id = NULL THEN EnrollmentViolation(self, TRUE)
            ELSE IF Enrollment_get_by_id(self.enrollment_id) # NULL
                 THEN EnrollmentViolation(self, FALSE)
            ELSE ""

\* the call op(arg) gets as far as statement stmt
Reaches(op, arg, stmt) ==
    CASE stmt = "probe" -> IF op = "Student.save" THEN TRUE ELSE arg.enrollment_id = NULL
      [] stmt = "execute" ->
            (op = "Enrollment.save" /\ arg.enrollment_id = NULL) => ~ AlreadyEnrolled(arg)
      [] stmt = "commit" ->
            /\ (op = "Enrollment.save" /\ arg.enrollment_id = NULL) => ~ AlreadyEnrolled(arg)
            /\ op \in SaveOps => WriteViolation(op, arg) = ""
      [] OTHER -> TRUE

\* The record after a save that failed at stmt.  An insert-save assigns
\* cursor.lastrowid to the record right after its INSERT, before the commit.
SelfAfterFailure(op, self, stmt) ==
    IF stmt = "commit" /\ op # "Student.save" /\ self[KeyField(op)] = NULL
    THEN [self EXCEPT ![KeyField(op)] = Some(sqlite_sequence[TableOf(op)] + 1)]
    ELSE self

\* The call op(arg) in which the store raises the error raised at statement
\* stmt.  Nothing is committed.  The connection is closed when the statement
\* is inside the try statement whose finally clause closes it; when connect
\* itself fails there is no connection; in every other case the call is left
\* with the connection open.
Failing(op, arg, stmt, raised) ==
    /\ \E i \in DOMAIN Statements(op) : Statements(op)[i] = stmt
    /\ Reaches(op, arg, stmt)
    /\ last' = Call(op, arg,
                    IF op \in SaveOps THEN SelfAfterFailure(op, arg, stmt) ELSE NULL,
                    IF Handles(op, stmt, raised) THEN HandlerError(op, arg, raised.text) ELSE raised,
                    0)
    /\ fault' = raised
    /\ open_connections' = IF stmt = "connect" \/ stmt \in ClosedOnError(op)
                           THEN open_connections
                           ELSE open_connections + 1
    /\ UNCHANGED store

----------------------------------------------------------------------------
(* The repository on a store that can fail: every call either runs as      *)
(* above or meets a storage failure at one of its statements.              *)

FaultKeys == {1}

\* the record the scenario saves with each save
ScenarioRecord(op, key) ==
    CASE op = "Department.save" -> Department(Some("Computer Science"), key)
      [] op = "Formation.save" -> Formation(Some("Software Engineering"), Some(4), Some(1), key)
      [] op = "Student.save" -> Student(Some("S1001"), Some("John"), Some("Doe"))
      [] op = "Subject.save" -> Subject(Some("Algorithms"), Some(6), Some(1), Some(1), key)
      [] op = "Enrollment.save" -> Enrollment(Some("S1001"), Some(1), Some(2023), key)

RowsInserted ==
    sqlite_sequence.departments + sqlite_sequence.formations + sqlite_sequence.subjects
        + sqlite_sequence.enrollments + Len(students)

\* the save stores a new row
AddsRow(op, self) ==
    /\ Inserting(op, self)
    /\ WriteViolation(op, self) = ""
    /\ op = "Enrollment.save" => ~ AlreadyEnrolled(self)

\* self.save() of the class that op names
Save(op, self) ==
    \/ op = "Department.save" /\ Department_save(self)
    \/ op = "Formation.save" /\ Formation_save(self)
    \/ op = "Student.save" /\ Student_save(self)
    \/ op = "Subject.save" /\ Subject_save(self)
    \/ op = "Enrollment.save" /\ Enrollment_save(self)

SucceedingSave ==
    \E op \in SaveOps, key \in Opt(FaultKeys) :
        LET self == ScenarioRecord(op, key)
        IN /\ AddsRow(op, self) => RowsInserted < MaxFaultRows
           /\ Save(op, self)
           /\ ByClient

SucceedingDelete ==
    \E key \in Opt(FaultKeys) :
        /\ \/ Department_delete(key)
           \/ Formation_delete(key)
           \/ Student_delete(IF key = NULL THEN NULL ELSE Some("S1001"))
           \/ Subject_delete(key)
           \/ Enrollment_delete(key)
        /\ ByClient

FailingSave ==
    \E op \in SaveOps, key \in Opt(FaultKeys), raised \in StorageFailures :
        \E i \in DOMAIN Statements(op) :
            /\ Statements(op)[i] \notin ClosedOnError(op) \cup {"connect"}
                  => open_connections < MaxOpenConnections
            /\ Failing(op, ScenarioRecord(op, key), Statements(op)[i], raised)
            /\ UNCHANGED <<schema, dialog, processes, write_lock>>

FailingDelete ==
    \E op \in DeleteOps, key \in Opt(FaultKeys), raised \in StorageFailures :
        \E i \in DOMAIN Statements(op) :
            /\ Statements(op)[i] # "connect" => open_connections < MaxOpenConnections
            /\ Failing(op, IF op = "Student.delete" /\ key # NULL THEN Some("S1001") ELSE key,
                       Statements(op)[i], raised)
            /\ UNCHANGED <<schema, dialog, processes, write_lock>>

FailingQuery ==
    \E op \in QueryOps, raised \in StorageFailures :
        \E i \in DOMAIN Statements(op) :
            /\ Statements(op)[i] # "connect" => open_connections < MaxOpenConnections
            /\ Failing(op, NULL, Statements(op)[i], raised)
            /\ UNCHANGED <<schema, dialog, processes, write_lock>>

\* The interpreter reclaims a connection object that nothing references any
\* more, which closes it: some time after the call that left it open, once
\* the exception that carries the frame of the call is gone.
ReclaimConnection ==
    /\ open_connections > 0
    /\ open_connections' = open_connections - 1
    /\ UNCHANGED <<store, last, schema, fault, dialog, processes, write_lock>>

NextFault ==
    \/ SucceedingSave \/ SucceedingDelete
    \/ FailingSave \/ FailingDelete \/ FailingQuery
    \/ ReclaimConnection

SpecFault == Init /\ [][NextFault]_vars

----------------------------------------------------------------------------
(* The forms (ui/*.py).  The text of a line edit is the sequence of its    *)
(* characters; a name that a form saves is stored as such a sequence.      *)

\* characters that str.strip() removes
Whitespace == {" ", "\t"}

RECURSIVE lstrip(_)
lstrip(text) ==
    IF text # <<>> /\ Head(text) \in Whitespace THEN lstrip(Tail(text)) ELSE text

RECURSIVE rstrip(_)
rstrip(text) ==
    IF text # <<>> /\ text[Len(text)] \in Whitespace
    THEN rstrip(SubSeq(text, 1, Len(text) - 1))
    ELSE text

\* (faulty variant: the text is taken as typed)
strip_AsTyped(text) == text

\* str.strip(): the text without its leading and trailing whitespace
strip(text) == rstrip(lstrip(text))

\* str(e) of an exception: its message
Str(error) == [text |-> error.text, args |-> error.args]

\* A QSpinBox: a new one has the range 0..99 and the value 0.  Setting a
\* bound keeps the range valid and the value inside it.
QSpinBox == [minimum |-> 0, maximum |-> 99, value |-> 0]

setMinimum(spinbox, m) ==
    [minimum |-> m,
     maximum |-> IF spinbox.maximum < m THEN m ELSE spinbox.maximum,
     value |-> IF spinbox.value < m THEN m ELSE spinbox.value]

setMaximum(spinbox, m) ==
    [minimum |-> IF spinbox.minimum > m THEN m ELSE spinbox.minimum,
     maximum |-> m,
     value |-> IF spinbox.value > m THEN m ELSE spinbox.value]

setValue(spinbox, v) ==
    [spinbox EXCEPT !.value = IF v < spinbox.minimum THEN spinbox.minimum
                              ELSE IF v > spinbox.maximum THEN spinbox.maximum
                              ELSE v]

\* the values the user of a spin box submits in this model: the ends of its
\* range and the value the window set
SpinValues(spinbox) == {spinbox.minimum, spinbox.value, spinbox.maximum}

\* (faulty variant: the clause for Exception comes first)
ShownFor_ExceptionFirst(error, title, critical) ==
    IF IsInstance(error.exc, "Exception")
    THEN MessageBox("critical", "Error", critical, <<Str(error)>>)
    ELSE NoMessageBox

\* The except clauses of a submit handler, in their order:
\*   except ValueError as ve: QMessageBox.warning(self, title, str(ve))
\*   except Exception as e:   QMessageBox.critical(self, "Error", f"...: {e}")
ShownFor(error, title, critical) ==
    IF IsInstance(error.exc, "ValueError")
    THEN MessageBox("warning", title, "{ve}", <<Str(error)>>)
    ELSE IF IsInstance(error.exc, "Exception")
    THEN MessageBox("critical", "Error", critical, <<Str(error)>>)
    ELSE NoMessageBox

\* the exception that no except clause of the handler catches
Escaping(error) ==
    IF error = NoError \/ IsInstance(error.exc, "Exception") THEN NoError ELSE error

\* the handler returns after a warning about a missing input
Rejected(handler, input, message) ==
    /\ dialog' = Dialog(handler, input, FALSE, NoError,
                        MessageBox("warning", "Input Error", message, <<>>), NoError)
    /\ UNCHANGED <<store, last, schema, open_connections, fault, processes, write_lock>>

\* The try statement of a submit handler: it builds the record and calls
\* save, which runs as in the repository or meets the storage failure
\* raised at statement stmt (stmt = "none": no failure).  After a save that
\* returned, the handler clears its inputs and reloads its list, a read of
\* the store that catches its own errors.
Submitted(handler, input, op, self, stmt, raised, title, critical) ==
    /\ IF stmt = "none"
       THEN /\ Save(op, self)
            /\ fault' = NoError
            /\ UNCHANGED open_connections
       ELSE Failing(op, self, stmt, raised)
    /\ dialog' = Dialog(handler, input, TRUE, last'.error,
                        IF last'.error = NoError THEN NoMessageBox
                        ELSE ShownFor(last'.error, title, critical),
                        Escaping(last'.error))
    /\ UNCHANGED <<schema, processes, write_lock>>

\* DepartmentWindow.add_department; name_input: the text of the line edit
add_department(name_input, stmt, raised) ==
    LET input == [name_input |-> name_input]
        dept_name == strip(name_input)
    IN IF dept_name = <<>>
       THEN Rejected("add_department", input, "Department name cannot be empty.")
       ELSE Submitted("add_department", input, "Department.save",
                      Department(Some(dept_name), NULL), stmt, raised,
                      "Error Adding Department", "An unexpected error occurred: {e}")

\* the duration spin box of FormationWindow
duration_spinbox == setValue(setMaximum(setMinimum(QSpinBox, 1), 7), 3)

\* FormationWindow.add_formation; currentData: the data of the selected
\* department item (None for the placeholder item)
add_formation(currentData, name_input, duration, stmt, raised) ==
    LET input == [department_id |-> currentData, name_input |-> name_input, duration |-> duration]
        formation_name == strip(name_input)
    IN IF currentData = NULL
       THEN Rejected("add_formation", input, "Please select a department.")
       ELSE IF formation_name = <<>>
       THEN Rejected("add_formation", input, "Formation name cannot be empty.")
       ELSE IF duration <= 0
       THEN Rejected("add_formation", input, "Duration must be greater than 0.")
       ELSE Submitted("add_formation", input, "Formation.save",
                      Formation(Some(formation_name), Some(duration), currentData, NULL),
                      stmt, raised,
                      "Error Adding Formation", "An unexpected error occurred: {e}")

\* StudentWindow.add_student
add_student(student_id_input, first_name_input, last_name_input, stmt, raised) ==
    LET input == [student_id_input |-> student_id_input,
                  first_name_input |-> first_name_input,
                  last_name_input |-> last_name_input]
        student_id == strip(student_id_input)
        first_name == strip(first_name_input)
        last_name == strip(last_name_input)
    IN IF student_id = <<>>
       THEN Rejected("add_student", input, "Student ID cannot be empty.")
       ELSE IF first_name = <<>>
       THEN Rejected("add_student", input, "First name cannot be empty.")
       ELSE IF last_name = <<>>
       THEN Rejected("add_student", input, "Last name cannot be empty.")
       ELSE Submitted("add_student", input, "Student.save",
                      Student(Some(student_id), Some(first_name), Some(last_name)),
                      stmt, raised,
                      "Error Saving Student",
                      "An unexpected error occurred while saving student: {e}")

\* (faulty variant: the year spin box takes the duration as its maximum whatever it is)
year_spinbox_Unchecked(duration_years) ==
    setMaximum(setMinimum(QSpinBox, 1), duration_years)

\* the year spin box of SubjectWindow(formation_id, formation_name,
\* duration_years): 1..duration_years, and 1..1 (disabled) when the duration
\* is not positive
year_spinbox(duration_years) ==
    IF duration_years > 0
    THEN setMaximum(setMinimum(QSpinBox, 1), duration_years)
    ELSE setMaximum(setMinimum(QSpinBox, 1), 1)

\* the credits spin box of SubjectWindow
credits_spinbox == setValue(setMaximum(setMinimum(QSpinBox, 1), 15), 3)

\* SubjectWindow.add_subject; window: the formation_id and duration_years
\* the window was constructed with
add_subject(window, current_year, name_input, credits_value, stmt, raised) ==
    LET input == [window |-> window, year |-> current_year,
                  name_input |-> name_input, credits |-> credits_value]
        subject_name == strip(name_input)
    IN IF subject_name = <<>>
       THEN Rejected("add_subject", input, "Subject name cannot be empty.")
       ELSE IF credits_value <= 0
       THEN Rejected("add_subject", input, "Credits must be greater than 0.")
       ELSE Submitted("add_subject", input, "Subject.save",
                      Subject(Some(subject_name), Some(credits_value), Some(current_year),
                              window.formation_id, NULL),
                      stmt, raised,
                      "Error Adding Subject", "An unexpected error occurred: {e}")

\* the year spin box of EnrollmentWindow, built in the year current_year
enrollment_year_spinbox(current_year) ==
    setValue(setMaximum(setMinimum(QSpinBox, current_year - 5), current_year + 1), current_year)

\* EnrollmentWindow.enroll_student; student_id, formation_id: the data of
\* the selected combo box items (None for a placeholder item)
enroll_student(student_id, formation_id, enrollment_year_val, stmt, raised) ==
    LET input == [student_id |-> student_id, formation_id |-> formation_id,
                  year |-> enrollment_year_val]
    IN IF student_id = NULL
       THEN Rejected("enroll_student", input, "Please select a student.")
       ELSE IF formation_id = NULL
       THEN Rejected("enroll_student", input, "Please select a formation.")
       ELSE Submitted("enroll_student", input, "Enrollment.save",
                      Enrollment(student_id, formation_id, Some(enrollment_year_val), NULL),
                      stmt, raised,
                      "Enrollment Error",
                      "An unexpected error occurred during enrollment: {e}")

----------------------------------------------------------------------------
(* The forms in use: a submit with its inputs.                             *)

\* what the user types: nothing, whitespace only, a name with whitespace around it
FormTexts == {<<>>, <<" ", "\t">>, <<" ", "A", " ">>}

\* a text that passes the check of a required field
ValidTexts == {<<" ", "A", " ">>}

\* the data of the selected item of a combo box: a key, or None for a placeholder
FormationChoices == Opt({1})
DepartmentChoices == Opt({1})
StudentChoices == Opt({<<"A">>})

\* the windows for the subjects of a formation
SubjectWindows ==
    {[formation_id |-> Some(1), duration_years |-> d] : d \in (-1)..MaxDuration}

\* no failure, or (failing) a failure at one of the statements of the save
FormStatements(op, failing) ==
    {"none"} \cup {Statements(op)[i] : i \in {j \in DOMAIN Statements(op) : failing}}

\* a save that fails at stmt returns with its connection open
Leaks(op, stmt) == stmt \notin {"none", "connect"} \cup ClosedOnError(op)

AddDepartment(texts, failing) ==
    \E name_input \in texts,
       stmt \in FormStatements("Department.save", failing), raised \in StorageFailures :
        /\ Leaks("Department.save", stmt) => open_connections < MaxOpenConnections
        /\ add_department(name_input, stmt, raised)
        /\ RowsInserted' <= MaxFormRows

AddFormation(choices, texts, failing) ==
    \E currentData \in choices, name_input \in texts,
       duration \in SpinValues(duration_spinbox),
       stmt \in FormStatements("Formation.save", failing), raised \in StorageFailures :
        /\ Leaks("Formation.save", stmt) => open_connections < MaxOpenConnections
        /\ add_formation(currentData, name_input, duration, stmt, raised)
        /\ RowsInserted' <= MaxFormRows

AddStudent(texts, failing) ==
    \E student_id_input \in texts, first_name_input \in texts, last_name_input \in texts,
       stmt \in FormStatements("Student.save", failing), raised \in StorageFailures :
        /\ Leaks("Student.save", stmt) => open_connections < MaxOpenConnections
        /\ add_student(student_id_input, first_name_input, last_name_input, stmt, raised)
        /\ RowsInserted' <= MaxFormRows

AddSubject(windows, texts, failing) ==
    \E window \in windows, name_input \in texts,
       credits_value \in SpinValues(credits_spinbox),
       stmt \in FormStatements("Subject.save", failing), raised \in StorageFailures :
        \E current_year \in SpinValues(year_spinbox(window.duration_years)) :
            /\ Leaks("Subject.save", stmt) => open_connections < MaxOpenConnections
            /\ add_subject(window, current_year, name_input, credits_value, stmt, raised)
            /\ RowsInserted' <= MaxFormRows

EnrollStudent(students_choices, formation_choices, failing) ==
    \E student_id \in students_choices, formation_id \in formation_choices,
       enrollment_year_val \in SpinValues(enrollment_year_spinbox(2023)),
       stmt \in FormStatements("Enrollment.save", failing), raised \in StorageFailures :
        /\ Leaks("Enrollment.save", stmt) => open_connections < MaxOpenConnections
        /\ enroll_student(student_id, formation_id, enrollment_year_val, stmt, raised)
        /\ RowsInserted' <= MaxFormRows

----------------------------------------------------------------------------
(* The five forms submitted with valid inputs on a store that can fail.    *)

SubmitDepartment == AddDepartment(ValidTexts, TRUE)

SubmitFormation == AddFormation({Some(1)}, ValidTexts, TRUE)

SubmitStudent == AddStudent(ValidTexts, TRUE)

SubmitSubject == AddSubject({[formation_id |-> Some(1), duration_years |-> 1]}, ValidTexts, TRUE)

SubmitEnrollment == EnrollStudent({Some(<<"A">>)}, {Some(1)}, TRUE)

\* a connection left open is reclaimed; the forms are as they were
ReclaimedUnderForms == ReclaimConnection

NextForms ==
    \/ SubmitDepartment \/ SubmitFormation \/ SubmitStudent
    \/ SubmitSubject \/ SubmitEnrollment
    \/ ReclaimedUnderForms

SpecForms == Init /\ [][NextForms]_vars

----------------------------------------------------------------------------
(* The forms submitted with every kind of input, valid or missing.         *)

TypeDepartment == AddDepartment(FormTexts, FALSE)

TypeFormation == AddFormation(DepartmentChoices, FormTexts, FALSE)

TypeStudent == AddStudent(FormTexts, FALSE)

ChooseEnrollment == EnrollStudent(StudentChoices, FormationChoices, FALSE)

NextFormInputs == TypeDepartment \/ TypeFormation \/ TypeStudent \/ ChooseEnrollment

SpecFormInputs == Init /\ [][NextFormInputs]_vars

----------------------------------------------------------------------------
(* The subject windows of formations of every duration.                    *)

TypeSubject == AddSubject(SubjectWindows, FormTexts, FALSE)

NextSubjectWindow == TypeSubject

SpecSubjectWindow == Init /\ [][NextSubjectWindow]_vars

----------------------------------------------------------------------------
(* EnrollmentWindow.load_enrollments_list: the list of all enrollments.    *)

\* fetchall() of SELECT * FROM enrollments: every row once, in key order
RECURSIVE EnrollmentRows(_)
EnrollmentRows(rows) ==
    IF rows = {} THEN <<>>
    ELSE LET first == CHOOSE r \in rows :
                          \A q \in rows : r.enrollment_id[1] <= q.enrollment_id[1]
         IN <<first>> \o EnrollmentRows(rows \ {first})

\* QListWidgetItem(text) with setData(UserRole, data); data NULL: none set
ListItem(text, data) == [text |-> text, data |-> data]

\* students_dict.get(key) of {s.student_id: s for s in Student.get_all()}:
\* keys compare as Python values, and a later row replaces an earlier one
\* with the same key
students_dict_get(key) ==
    LET hit == {i \in 1..Len(students) : students[i].student_id = key}
    IN IF hit = {} THEN NULL
       ELSE Some(students[CHOOSE i \in hit : \A j \in hit : j <= i])

\* formations_dict.get(key) of {f.formation_id: f for f in Formation.get_all()}
formations_dict_get(key) ==
    LET hit == {f \in formations : f.formation_id = key}
    IN IF hit = {} THEN NULL ELSE Some(CHOOSE f \in hit : TRUE)

\* the item of enrollment e, its text the pieces of
\* f"{student_name} in {formation_name} (Year: {e.enrollment_year})"
enrollment_item(e) ==
    LET student == students_dict_get(e.student_id)
        formation == formations_dict_get(e.formation_id)
        student_name == IF student # NULL
                        THEN <<student[1].first_name[1], " ", student[1].last_name[1]>>
                        ELSE <<"Unknown Student">>
        formation_name == IF formation # NULL THEN formation[1].name[1] ELSE "Unknown Formation"
    IN ListItem(<<student_name, " in ", formation_name, " (Year: ", e.enrollment_year[1], ")">>,
                e.enrollment_id)

\* (faulty variant: a list of the enrollments whose student is stored)
enrollment_list_StoredStudents(raised) ==
    LET rows == EnrollmentRows({e \in enrollments : students_dict_get(e.student_id) # NULL})
    IN IF raised # NoError THEN <<ListItem(<<"Error loading enrollments: ", raised>>, NULL)>>
       ELSE IF rows = <<>> THEN <<ListItem(<<"No enrollments found.">>, NULL)>>
       ELSE [i \in 1..Len(rows) |-> enrollment_item(rows[i])]

\* the items of self.enrollment_list after load_enrollments_list(); raised
\* is the error that one of the three listings met, NoError if none did
enrollment_list(raised) ==
    LET rows == EnrollmentRows(Enrollment_get_all)
    IN IF raised # NoError THEN <<ListItem(<<"Error loading enrollments: ", raised>>, NULL)>>
       ELSE IF rows = <<>> THEN <<ListItem(<<"No enrollments found.">>, NULL)>>
       ELSE [i \in 1..Len(rows) |-> enrollment_item(rows[i])]

\* load_enrollments_list(): it reads the three tables and fills the list; a
\* listing that cannot connect raises, and the handler shows the error in
\* the list instead
load_enrollments_list(raised) ==
    /\ last' = [Returned("EnrollmentWindow.load_enrollments_list", NULL, enrollment_list(raised))
                  EXCEPT !.error = raised]
    /\ fault' = raised
    /\ UNCHANGED <<store, schema, open_connections, dialog, processes, write_lock>>

----------------------------------------------------------------------------
(* The enrollment window opened on students, formations and enrollments    *)
(* that clients save and delete.                                           *)

ListedStudentSave ==
    \E student_id \in Opt(StudentIds) :
        /\ ~ StudentExists(student_id) => Len(students) < MaxStudentRows
        /\ Student_save(Student(student_id, Some("John"), Some("Doe")))
        /\ ByClient

ListedStudentDelete ==
    \E student_id \in StudentIds : Student_delete(Some(student_id)) /\ ByClient

ListedFormationSave ==
    /\ sqlite_sequence.formations < MaxFormationId
    /\ Formation_save(Formation(Some("Software Engineering"), Some(4), Some(1), NULL))
    /\ ByClient

ListedFormationDelete ==
    \E formation_id \in 1..MaxFormationId : Formation_delete(Some(formation_id)) /\ ByClient

ListedEnrollmentSave ==
    \E student_id \in Opt(StudentIds), formation_id \in EnrolledFormationIds :
        /\ sqlite_sequence.enrollments < MaxEnrollmentId
        /\ Enrollment_save(Enrollment(student_id, Some(formation_id), Some(2023), NULL))
        /\ ByClient

ListedEnrollmentDelete ==
    \E enrollment_id \in EnrollmentIds : Enrollment_delete(Some(enrollment_id)) /\ ByClient

LoadEnrollmentsList ==
    \E raised \in {NoError} \cup StorageFailures : load_enrollments_list(raised)

NextEnrollmentWindow ==
    \/ ListedStudentSave \/ ListedStudentDelete
    \/ ListedFormationSave \/ ListedFormationDelete
    \/ ListedEnrollmentSave \/ ListedEnrollmentDelete
    \/ LoadEnrollmentsList

SpecEnrollmentWindow == Init /\ [][NextEnrollmentWindow]_vars

----------------------------------------------------------------------------
(* The four tables with AUTOINCREMENT keys: records saved without a key,   *)
(* with the key of a stored row and with a key that no row has, and rows   *)
(* deleted.                                                                *)

KeyedTables == {"departments", "formations", "subjects", "enrollments"}
PassedKeys == {1, 2}

\* keys handed out so far in the four tables together
KeysHandedOut ==
    sqlite_sequence.departments + sqlite_sequence.formations
        + sqlite_sequence.subjects + sqlite_sequence.enrollments

KeyedDepartmentSave ==
    \E name \in DepartmentNames, department_id \in Opt(PassedKeys) :
        /\ department_id = NULL => KeysHandedOut < MaxKeys
        /\ Department_save(Department(Some(name), department_id))
        /\ ByClient

KeyedDepartmentDelete ==
    \E department_id \in PassedKeys : Department_delete(Some(department_id)) /\ ByClient

KeyedFormationSave ==
    \E name \in Opt(FormationNames), formation_id \in Opt(PassedKeys) :
        /\ formation_id = NULL => KeysHandedOut < MaxKeys
        /\ Formation_save(Formation(name, Some(4), Some(1), formation_id))
        /\ ByClient

KeyedFormationDelete ==
    \E formation_id \in PassedKeys : Formation_delete(Some(formation_id)) /\ ByClient

KeyedSubjectSave ==
    \E name \in Opt({"Algorithms"}), subject_id \in Opt(PassedKeys) :
        /\ subject_id = NULL => KeysHandedOut < MaxKeys
        /\ Subject_save(Subject(name, Some(6), Some(1), Some(1), subject_id))
        /\ ByClient

KeyedSubjectDelete ==
    \E subject_id \in PassedKeys : Subject_delete(Some(subject_id)) /\ ByClient

KeyedEnrollmentSave ==
    \E enrollment_year \in EnrollmentYears, enrollment_id \in Opt(PassedKeys) :
        /\ enrollment_id = NULL => KeysHandedOut < MaxKeys
        /\ Enrollment_save(Enrollment(Some("S1001"), Some(1), Some(enrollment_year), enrollment_id))
        /\ ByClient

KeyedEnrollmentDelete ==
    \E enrollment_id \in PassedKeys : Enrollment_delete(Some(enrollment_id)) /\ ByClient

\* the application started again
KeyedInitializeDatabase == InitializeDatabase

NextKeys ==
    \/ KeyedDepartmentSave \/ KeyedDepartmentDelete
    \/ KeyedFormationSave \/ KeyedFormationDelete
    \/ KeyedSubjectSave \/ KeyedSubjectDelete
    \/ KeyedEnrollmentSave \/ KeyedEnrollmentDelete
    \/ KeyedInitializeDatabase

SpecKeys == Init /\ [][NextKeys]_vars

----------------------------------------------------------------------------
(* Calls of several processes on one database file, statement by           *)
(* statement.  A SELECT reads the committed rows and keeps no lock once    *)
(* its row is fetched.  The sqlite3 module opens a transaction before an   *)
(* INSERT, UPDATE or DELETE; the statement takes the write lock of the     *)
(* file, waiting while another process holds it, and the rows it writes    *)
(* are visible to the other processes from the commit on.  A statement     *)
(* that fails leaves its transaction open, and with it the lock, until the *)
(* connection is closed and its cursor reclaimed.                          *)

\* what the steps of a process leave alone
AsProcess == UNCHANGED <<last, schema, open_connections, fault, dialog>>

\* process p goes on with its call as record next says
Goes(p, next) == processes' = [processes EXCEPT ![p] = next]

\* the first statement of a call after sqlite3.connect() and conn.cursor()
FirstStatement(op, self) ==
    CASE op = "Student.save" -> "probe"
      [] op = "Enrollment.save" -> IF self.enrollment_id = NULL THEN "probe" ELSE "execute"
      [] OTHER -> "execute"

\* process p, in no call, calls op on self
Calls(p, op, self) ==
    /\ processes[p].pc \in {"idle", "returned", "failed"}
    /\ Goes(p, Running(op, self, FirstStatement(op, self), FALSE, "", NoError, 0))
    /\ UNCHANGED <<store, write_lock>>
    /\ AsProcess

\* Student.save, lines 148-149: the existence probe, outside the try
Student_save_probe(p) ==
    LET call == processes[p]
    IN /\ call.op = "Student.save"
       /\ call.pc = "probe"
       /\ Goes(p, [call EXCEPT !.existing = StudentExists(call.self.student_id),
                               !.pc = "execute"])
       /\ UNCHANGED <<store, write_lock>>
       /\ AsProcess

\* Student.save, lines 152-159: the UPDATE or the INSERT that the probe chose
Student_save_execute(p) ==
    LET call == processes[p]
        self == call.self
        hit == {i \in 1..Len(students) : SqlEq(students[i].student_id, self.student_id)}
        cause == IF call.existing
                 THEN IF hit # {}
                      THEN StudentViolation(self.student_id, self.first_name, self.last_name, FALSE)
                      ELSE ""
                 ELSE StudentViolation(self.student_id, self.first_name, self.last_name, TRUE)
    IN /\ call.op = "Student.save"
       /\ call.pc = "execute"
       /\ write_lock = 0
       /\ write_lock' = p
       /\ IF cause # ""
          THEN Goes(p, [call EXCEPT !.pc = "raised", !.error = StudentSaveError(self, cause)])
          ELSE Goes(p, [call EXCEPT !.pc = "commit",
                                    !.statement = IF call.existing THEN "UPDATE" ELSE "INSERT",
                                    !.rowcount = IF call.existing THEN Cardinality(hit) ELSE 1])
       /\ UNCHANGED store
       /\ AsProcess

\* Student.delete, line 171: the DELETE
Student_delete_execute(p) ==
    LET call == processes[p]
        hit == {i \in 1..Len(students) : SqlEq(students[i].student_id, call.self)}
        referenced == hit # {} /\ \E e \in enrollments : SqlEq(e.student_id, call.self)
    IN /\ call.op = "Student.delete"
       /\ call.pc = "execute"
       /\ write_lock = 0
       /\ write_lock' = p
       /\ IF ForeignKeysEnforced /\ referenced
          THEN Goes(p, [call EXCEPT !.pc = "raised",
                                    !.error = IntegrityError("FOREIGN KEY constraint failed")])
          ELSE Goes(p, [call EXCEPT !.pc = "commit", !.statement = "DELETE",
                                    !.rowcount = Cardinality(hit)])
       /\ UNCHANGED store
       /\ AsProcess

\* Enrollment.save, lines 277-282: the duplicate pre-check of the insert branch
Enrollment_save_probe(p) ==
    LET call == processes[p]
        existing == AlreadyEnrolled(call.self)
    IN /\ call.op = "Enrollment.save"
       /\ call.pc = "probe"
       /\ IF existing
          THEN Goes(p, [call EXCEPT !.existing = TRUE, !.pc = "raised",
                                    !.error = AlreadyEnrolledError(call.self)])
          ELSE Goes(p, [call EXCEPT !.pc = "execute"])
       /\ UNCHANGED <<store, write_lock>>
       /\ AsProcess

\* Enrollment.save, lines 284-286 and 293-294: the INSERT, after which the
\* record gets cursor.lastrowid, or the UPDATE
Enrollment_save_execute(p) ==
    LET call == processes[p]
        self == call.self
        inserting == self.enrollment_id = NULL
        hit == {r \in enrollments : SqlEq(r.enrollment_id, self.enrollment_id)}
        cause == IF inserting THEN EnrollmentViolation(self, TRUE)
                 ELSE IF hit # {} THEN EnrollmentViolation(self, FALSE)
                 ELSE ""
        lastrowid == sqlite_sequence.enrollments + 1
    IN /\ call.op = "Enrollment.save"
       /\ call.pc = "execute"
       /\ write_lock = 0
       /\ write_lock' = p
       /\ IF cause # ""
          THEN Goes(p, [call EXCEPT !.pc = "raised", !.error = EnrollmentSaveError(cause)])
          ELSE IF inserting
          THEN Goes(p, [call EXCEPT !.pc = "commit", !.statement = "INSERT", !.rowcount = 1,
                                    !.self = [self EXCEPT !.enrollment_id = Some(lastrowid)]])
          ELSE Goes(p, [call EXCEPT !.pc = "commit", !.statement = "UPDATE",
                                    !.rowcount = Cardinality(hit)])
       /\ UNCHANGED store
       /\ AsProcess

\* conn.commit(): the rows that the statement of the transaction wrote
\* become the rows of the table, and the write lock is free again; then
\* conn.close() and the return
Commits(p) ==
    LET call == processes[p]
        self == call.self
    IN /\ call.pc = "commit"
       /\ write_lock = p
       /\ write_lock' = 0
       /\ Goes(p, [call EXCEPT !.pc = "returned"])
       /\ CASE call.op = "Student.save" /\ call.statement = "INSERT" ->
                 /\ students' = Append(students, self)
                 /\ UNCHANGED <<departments, formations, subjects, enrollments, sqlite_sequence>>
            [] call.op = "Student.save" /\ call.statement = "UPDATE" ->
                 /\ students' = [i \in 1..Len(students) |->
                                    IF SqlEq(students[i].student_id, self.student_id)
                                    THEN self ELSE students[i]]
                 /\ UNCHANGED <<departments, formations, subjects, enrollments, sqlite_sequence>>
            [] call.op = "Student.delete" ->
                 /\ students' = SelectSeq(students, LAMBDA r : ~ SqlEq(r.student_id, self))
                 /\ UNCHANGED <<departments, formations, subjects, enrollments, sqlite_sequence>>
            [] call.op = "Enrollment.save" /\ call.statement = "INSERT" ->
                 /\ enrollments' = enrollments \cup {self}
                 /\ sqlite_sequence' = [sqlite_sequence EXCEPT !.enrollments = self.enrollment_id[1]]
                 /\ UNCHANGED <<departments, formations, students, subjects>>
            [] call.op = "Enrollment.save" /\ call.statement = "UPDATE" ->
                 /\ enrollments' = EnrollmentUpdate(self)
                 /\ UNCHANGED <<departments, formations, students, subjects, sqlite_sequence>>
       /\ AsProcess

\* The exception leaves the call: finally conn.close(), and once the caller
\* is done with the exception the cursor is reclaimed, which rolls the open
\* transaction back and frees the write lock.
Raises(p) ==
    /\ processes[p].pc = "raised"
    /\ Goes(p, [processes[p] EXCEPT !.pc = "failed"])
    /\ write_lock' = IF write_lock = p THEN 0 ELSE write_lock
    /\ UNCHANGED store
    /\ AsProcess

----------------------------------------------------------------------------
(* Two processes that save and delete students and enroll them. *)

ProcessStudentIds == {"S1001"}
ProcessFirstNames == {"John", "Jane"}
ProcessEnrolledIds == {"S1001", "S1002"}

CallStudentSave ==
    \E p \in Processes, student_id \in ProcessStudentIds, first_name \in ProcessFirstNames :
        Calls(p, "Student.save", Student(Some(student_id), Some(first_name), Some("Doe")))

CallStudentDelete ==
    \E p \in Processes, student_id \in ProcessStudentIds :
        Calls(p, "Student.delete", Some(student_id))

CallEnrollmentSave ==
    \E p \in Processes, student_id \in ProcessEnrolledIds, enrollment_year \in EnrollmentYears :
        Calls(p, "Enrollment.save",
              Enrollment(Some(student_id), Some(1), Some(enrollment_year), NULL))

StudentSaveProbe == \E p \in Processes : Student_save_probe(p)

StudentSaveExecute == \E p \in Processes : Student_save_execute(p)

StudentDeleteExecute == \E p \in Processes : Student_delete_execute(p)

EnrollmentSaveProbe == \E p \in Processes : Enrollment_save_probe(p)

EnrollmentSaveExecute == \E p \in Processes : Enrollment_save_execute(p)

Commit == \E p \in Processes : Commits(p)

Raise == \E p \in Processes : Raises(p)

NextProcesses ==
    \/ CallStudentSave \/ CallStudentDelete \/ CallEnrollmentSave
    \/ StudentSaveProbe \/ StudentSaveExecute \/ StudentDeleteExecute
    \/ EnrollmentSaveProbe \/ EnrollmentSaveExecute
    \/ Commit \/ Raise

SpecProcesses == Init /\ [][NextProcesses]_vars

----------------------------------------------------------------------------
(* Properties of Department.save and Formation.save. *)

\* the record is saved under a name that a stored department other than it has:
\* an insert, or an update of a stored row (a rename)
NamedLikeAnother(rec) ==
    /\ rec.name # NULL
    /\ \E r \in departments : r.name = rec.name /\ r.department_id # rec.department_id
    /\ rec.department_id # NULL => \E own \in departments : own.department_id = rec.department_id

\* C1: Department.save (an insert, or an update that renames) under a name
\* that another stored department has raises ValueError and leaves table
\* departments as it was; an insert-save under a name (a text value) that no
\* stored department has raises nothing, returns the record with
\* department_id assigned, and the table holds the row.
C1_DepartmentNameUnique ==
    [][last'.op = "Department.save" =>
          /\ NamedLikeAnother(last'.arg) =>
                /\ last'.error.exc = "ValueError"
                /\ departments' = departments
          /\ ( /\ last'.arg.department_id = NULL
               /\ last'.arg.name # NULL
               /\ ~ \E r \in departments : r.name = last'.arg.name ) =>
                /\ last'.error = NoError
                /\ last'.self.department_id # NULL
                /\ last'.self.name = last'.arg.name
                /\ departments' = departments \cup {last'.self}
                /\ last'.self \notin departments]_vars

\* a rename of a stored department to the name of another one was rejected,
\* and an insert under a fresh name has assigned a key
C1_Witness ==
    /\ last.op = "Department.save"
    /\ last.error.exc = "ValueError"
    /\ last.arg.department_id # NULL
    /\ \E own \in departments : own.department_id = last.arg.department_id /\ own.name # last.arg.name
    /\ \E r \in departments : r.name = last.arg.name /\ r.department_id # last.arg.department_id
    /\ Cardinality(departments) = 2

\* C2 (as claimed): Formation.save with a department_id that matches no
\* stored department raises ValueError.
C2_UnknownDepartmentRejected ==
    ( /\ last.op = "Formation.save"
      /\ last.arg.department_id # NULL
      /\ Department_get_by_id(last.arg.department_id) = NULL
      /\ \/ last.arg.formation_id = NULL
         \/ Formation_get_by_id(last.arg.formation_id) # NULL )
    => last.error.exc = "ValueError"

----------------------------------------------------------------------------
(* Properties of Student.save. *)

\* C3: Student.save for a student_id that has a stored row (get_by_id finds
\* it) leaves the number of student rows (the length of Student.get_all) and
\* every other student row as they were, and, given names, raises nothing and
\* writes first_name and last_name into that row, in its place.
C3_StudentUpdateInPlace ==
    [][( /\ last'.op = "Student.save"
         /\ Student_get_by_id(last'.arg.student_id) # NULL ) =>
          /\ Len(Student_get_all') = Len(Student_get_all)
          /\ \A i \in 1..Len(students) :
                students[i].student_id # last'.arg.student_id => students'[i] = students[i]
          /\ (last'.arg.first_name # NULL /\ last'.arg.last_name # NULL) =>
                /\ last'.error = NoError
                /\ \A i \in 1..Len(students) :
                      students[i].student_id = last'.arg.student_id => students'[i] = last'.arg]_vars

\* the first of two stored students has just been saved again under another name
C3_Witness ==
    /\ last.op = "Student.save"
    /\ last.error = NoError
    /\ Len(students) = 2
    /\ students[1] = last.arg
    /\ students[2].student_id # last.arg.student_id
    /\ last.arg.last_name = Some("Doe Jr.")

----------------------------------------------------------------------------
(* Properties of Enrollment.save and Enrollment.delete. *)

\* C4: an insert-save of an Enrollment whose student_id and formation_id are
\* those of a stored enrollment raises the ValueError whose message names
\* that student and that formation as already enrolled, and leaves table
\* enrollments as it was.
C4_DuplicateEnrollmentRejected ==
    [][( /\ last'.op = "Enrollment.save"
         /\ last'.arg.enrollment_id = NULL
         /\ last'.arg.student_id # NULL
         /\ last'.arg.formation_id # NULL
         /\ \E r \in enrollments : /\ r.student_id = last'.arg.student_id
                                   /\ r.formation_id = last'.arg.formation_id ) =>
          /\ last'.error.exc = "ValueError"
          /\ last'.error.text = "Student {student_id} is already enrolled in formation {formation_id}."
          /\ last'.error.args = <<last'.arg.student_id, last'.arg.formation_id>>
          /\ last'.self.enrollment_id = NULL
          /\ enrollments' = enrollments]_vars

\* a second enrollment of a student in the same formation, for another year, was refused
C4_Witness ==
    /\ last.op = "Enrollment.save"
    /\ last.arg.enrollment_id = NULL
    /\ last.error.exc = "ValueError"
    /\ \E r \in enrollments : /\ r.student_id = last.arg.student_id
                              /\ r.formation_id = last.arg.formation_id
                              /\ r.student_id # NULL
                              /\ r.formation_id # NULL
                              /\ r.enrollment_year # last.arg.enrollment_year

\* C5 (as claimed): no two stored enrollment rows have the same
\* (student_id, formation_id) pair, an absent student_id or formation_id
\* included.
C5_PairUniqueWithNone ==
    \A r1, r2 \in enrollments :
        (r1.student_id = r2.student_id /\ r1.formation_id = r2.formation_id) => r1 = r2

\* C5 (amended): no two stored enrollment rows whose student_id and
\* formation_id are both present have the same (student_id, formation_id)
\* pair.
C5_PairUnique ==
    \A r1, r2 \in enrollments :
        ( /\ r1.student_id # NULL
          /\ r1.formation_id # NULL
          /\ r1.student_id = r2.student_id
          /\ r1.formation_id = r2.formation_id ) => r1 = r2

\* two enrollments are stored, and a third save for the pair of one of them,
\* for the other year, has just been refused
C5_Witness ==
    /\ Cardinality(enrollments) = 2
    /\ \A r \in enrollments : r.student_id # NULL /\ r.formation_id # NULL
    /\ last.op = "Enrollment.save"
    /\ last.rowcount = 0
    /\ last.error.exc = "ValueError"
    /\ \E r \in enrollments : /\ r.student_id = last.arg.student_id
                              /\ r.formation_id = last.arg.formation_id

\* C6: Enrollment.save of a record that carries the enrollment_id, student_id
\* and formation_id of a stored row and an enrollment_year raises no error,
\* and get_by_id(enrollment_id) then returns that enrollment_year with the
\* student_id and formation_id the row had.
C6_EnrollmentYearUpdate ==
    [][\A r \in enrollments :
          ( /\ last'.op = "Enrollment.save"
            /\ last'.arg.enrollment_id = r.enrollment_id
            /\ last'.arg.student_id = r.student_id
            /\ last'.arg.formation_id = r.formation_id
            /\ last'.arg.enrollment_year # NULL ) =>
             /\ last'.error = NoError
             /\ Enrollment_get_by_id(r.enrollment_id)'
                   = [r EXCEPT !.enrollment_year = last'.arg.enrollment_year]]_vars

\* the year of a stored enrollment was changed by a save of the fetched record
C6_Witness ==
    /\ last.op = "Enrollment.save"
    /\ last.arg.enrollment_id # NULL
    /\ last.error = NoError
    /\ last.rowcount = 1
    /\ Enrollment_get_by_id(last.arg.enrollment_id) = last.arg
    /\ last.arg.enrollment_year = Some(2024)
    /\ last.arg.student_id # NULL /\ last.arg.formation_id # NULL

\* C7: from its insertion to its deletion a stored enrollment row keeps its
\* student_id and formation_id; an update-save changes the enrollment_year
\* column of the row with its enrollment_id and nothing else, whatever
\* student_id and formation_id the record in memory carries.
C7_EnrollmentIdentityImmutable ==
    [][/\ \A r \in enrollments : \A q \in enrollments' :
             q.enrollment_id = r.enrollment_id =>
                q.student_id = r.student_id /\ q.formation_id = r.formation_id
       /\ (last'.op = "Enrollment.save" /\ last'.arg.enrollment_id # NULL) =>
             /\ \A r \in enrollments :
                   r.enrollment_id # last'.arg.enrollment_id => r \in enrollments'
             /\ Cardinality(enrollments') = Cardinality(enrollments)]_vars

\* a record carrying another student than its stored row was saved, and the
\* row has the record's year and still its own student
C7_Witness ==
    /\ last.op = "Enrollment.save"
    /\ last.arg.enrollment_id # NULL
    /\ last.error = NoError
    /\ last.rowcount = 1
    /\ \E r \in enrollments : /\ r.enrollment_id = last.arg.enrollment_id
                              /\ r.student_id # last.arg.student_id
                              /\ r.enrollment_year = last.arg.enrollment_year

----------------------------------------------------------------------------
(* Properties of the whole repository. *)

\* C8: for each of the five entities, delete(identity) with an identity that
\* has no stored row raises nothing and leaves the store as it was; and a
\* delete(identity) right after a delete(identity) of the same entity leaves
\* the store as the first one left it.
C8_DeleteIdempotent ==
    [][/\ ( \/ last'.op = "Department.delete" /\ Department_get_by_id(last'.arg) = NULL
            \/ last'.op = "Formation.delete" /\ Formation_get_by_id(last'.arg) = NULL
            \/ last'.op = "Student.delete" /\ Student_get_by_id(last'.arg) = NULL
            \/ last'.op = "Subject.delete" /\ Subject_get_by_id(last'.arg) = NULL
            \/ last'.op = "Enrollment.delete" /\ Enrollment_get_by_id(last'.arg) = NULL ) =>
             /\ last'.error = NoError
             /\ store' = store
       /\ ( /\ last.op \in DeleteOps
            /\ last'.op = last.op
            /\ last'.arg = last.arg ) =>
             store' = store]_vars

\* with every table populated, a delete was called for an enrollment key
\* that was never assigned
C8_Witness ==
    /\ last.op = "Enrollment.delete"
    /\ last.arg # NULL
    /\ last.arg[1] > sqlite_sequence.enrollments
    /\ last.rowcount = 0
    /\ last.error = NoError
    /\ departments # {} /\ formations # {} /\ students # <<>>
    /\ subjects # {} /\ enrollments # {}

\* C9: Department.delete(d) raises nothing, also when formations reference d;
\* it removes the department row d and no other, and leaves every formation
\* row (those with department_id = d included), every subject row and every
\* enrollment row as they were.
C9_DepartmentDeleteNoCascade ==
    [][last'.op = "Department.delete" =>
          /\ last'.error = NoError
          /\ departments' = {r \in departments : r.department_id # last'.arg}
          /\ formations' = formations
          /\ subjects' = subjects
          /\ enrollments' = enrollments
          /\ students' = students]_vars

\* a department was deleted, and its formation, the formation's subject and
\* an enrollment in the formation are still stored
C9_Witness ==
    /\ last.op = "Department.delete"
    /\ last.rowcount = 1
    /\ Department_get_by_id(last.arg) = NULL
    /\ \E f \in formations :
          /\ f.department_id = last.arg
          /\ \E s \in subjects : s.formation_id = f.formation_id
          /\ \E e \in enrollments : e.formation_id = f.formation_id

\* C10: after an insert-save of a Department, Formation, Subject or
\* Enrollment that raised nothing, the record carries a key generated by the
\* store, its other fields are those it was saved with, and get_by_id(key)
\* returns a record with the same field values; after a Student.save that
\* raised nothing the record still carries the caller's student_id, and
\* get_by_id(student_id) returns the saved names.
C10_SaveThenGetById ==
    /\ (last.op = "Department.save" /\ last.arg.department_id = NULL /\ last.error = NoError) =>
          /\ last.self.department_id # NULL
          /\ last.self = [last.arg EXCEPT !.department_id = last.self.department_id]
          /\ Department_get_by_id(last.self.department_id) = last.self
    /\ (last.op = "Formation.save" /\ last.arg.formation_id = NULL /\ last.error = NoError) =>
          /\ last.self.formation_id # NULL
          /\ last.self = [last.arg EXCEPT !.formation_id = last.self.formation_id]
          /\ Formation_get_by_id(last.self.formation_id) = last.self
    /\ (last.op = "Subject.save" /\ last.arg.subject_id = NULL /\ last.error = NoError) =>
          /\ last.self.subject_id # NULL
          /\ last.self = [last.arg EXCEPT !.subject_id = last.self.subject_id]
          /\ Subject_get_by_id(last.self.subject_id) = last.self
    /\ (last.op = "Enrollment.save" /\ last.arg.enrollment_id = NULL /\ last.error = NoError) =>
          /\ last.self.enrollment_id # NULL
          /\ last.self = [last.arg EXCEPT !.enrollment_id = last.self.enrollment_id]
          /\ Enrollment_get_by_id(last.self.enrollment_id) = last.self
    /\ (last.op = "Student.save" /\ last.arg.student_id # NULL /\ last.error = NoError) =>
          /\ last.self.student_id = last.arg.student_id
          /\ Student_get_by_id(last.self.student_id) # NULL
          /\ Student_get_by_id(last.self.student_id).first_name = last.arg.first_name
          /\ Student_get_by_id(last.self.student_id).last_name = last.arg.last_name

\* with every table populated, a subject was inserted and is fetched back
\* under its new key
C10_Witness ==
    /\ last.op = "Subject.save"
    /\ last.arg.subject_id = NULL
    /\ last.error = NoError
    /\ last.self.subject_id = Some(sqlite_sequence.subjects)
    /\ Subject_get_by_id(last.self.subject_id) = last.self
    /\ departments # {} /\ formations # {} /\ students # <<>> /\ enrollments # {}

----------------------------------------------------------------------------
(* Properties of the enrollment lookups. *)

\* C11: after an insert-save of Enrollment(s, f, y), with s and f present,
\* that raised nothing, get_by_student_and_formation(s, f) returns that
\* enrollment (its enrollment_id) with enrollment_year = y; it goes on
\* returning a stored enrollment, unchanged, over every call that is not a
\* delete or an update-save of its enrollment_id; and it returns None for
\* every pair (s, f) that no stored enrollment has.
C11_GetByStudentAndFormation ==
    [][/\ \A s \in StudentIds, f \in EnrolledFormationIds :
             ( /\ last'.op = "Enrollment.save"
               /\ last'.arg.enrollment_id = NULL
               /\ last'.arg.student_id = Some(s)
               /\ last'.arg.formation_id = Some(f)
               /\ last'.error = NoError ) =>
                LET found == Enrollment_get_by_student_and_formation(Some(s), Some(f))'
                IN /\ found # NULL
                   /\ found.enrollment_id = last'.self.enrollment_id
                   /\ found.enrollment_id # NULL
                   /\ found.student_id = Some(s)
                   /\ found.formation_id = Some(f)
                   /\ found.enrollment_year = last'.arg.enrollment_year
       /\ \A r \in enrollments :
             ( /\ r.student_id # NULL
               /\ r.formation_id # NULL
               /\ ~ (last'.op = "Enrollment.delete" /\ last'.arg = r.enrollment_id)
               /\ ~ (last'.op = "Enrollment.save" /\ last'.arg.enrollment_id = r.enrollment_id) ) =>
                /\ Enrollment_get_by_student_and_formation(r.student_id, r.formation_id) = r
                /\ Enrollment_get_by_student_and_formation(r.student_id, r.formation_id)' = r
       /\ \A student_id \in Opt(StudentIds), formation_id \in Opt(EnrolledFormationIds) :
             (~ \E r \in enrollments' : /\ r.student_id = student_id
                                        /\ r.formation_id = formation_id) =>
                Enrollment_get_by_student_and_formation(student_id, formation_id)' = NULL]_vars

\* a second student was enrolled for 2023 and is found under its pair, next
\* to the enrollment of the first one
C11_Witness ==
    /\ last.op = "Enrollment.save"
    /\ last.arg.enrollment_id = NULL
    /\ last.error = NoError
    /\ last.arg.student_id # NULL
    /\ last.arg.formation_id # NULL
    /\ last.arg.enrollment_year = Some(2023)
    /\ Cardinality(enrollments) = 2
    /\ Enrollment_get_by_student_and_formation(last.arg.student_id, last.arg.formation_id) = last.self
    /\ \E r \in enrollments : r.student_id # NULL /\ r.student_id # last.arg.student_id

\* C12 (as claimed): an insert-save of an Enrollment whose student_id matches
\* no stored student, or whose formation_id matches no stored formation,
\* raises ValueError and stores no enrollment row.
C12_UnknownStudentOrFormationRejected ==
    ( /\ last.op = "Enrollment.save"
      /\ last.arg.enrollment_id = NULL
      /\ \/ last.arg.student_id # NULL /\ Student_get_by_id(last.arg.student_id) = NULL
         \/ last.arg.formation_id # NULL /\ Formation_get_by_id(last.arg.formation_id) = NULL )
    => /\ last.error.exc = "ValueError"
       /\ last.self.enrollment_id = NULL
       /\ last.self \notin enrollments

----------------------------------------------------------------------------
(* Properties of the calls on a store that can fail. *)

\* C13 (as claimed): after any sequence of repository calls, failed or
\* successful, no connection that a repository call opened remains open.
C13_ConnectionsClosed == open_connections = 0

\* C14: a repository call raises ValueError only when it is a save that met
\* no storage failure and whose write statement violates a constraint of
\* the schema or whose duplicate-enrollment pre-check found a row; and a
\* storage failure raised at any statement of any call reaches the caller
\* as the error the store raised, which is no ValueError.
C14_OnlyIntegrityIsWrapped ==
    /\ last.error.exc = "ValueError" =>
          /\ last.op \in SaveOps
          /\ fault = NoError
          /\ \/ WriteViolation(last.op, last.arg) # ""
             \/ /\ last.op = "Enrollment.save"
                /\ last.arg.enrollment_id = NULL
                /\ AlreadyEnrolled(last.arg)
    /\ fault # NoError =>
          /\ last.error = fault
          /\ ~ IsInstance(last.error.exc, "ValueError")

\* the commit of an insert-save of a department failed: the caller got the
\* error of the store, and the record has a key under which nothing is stored
C14_Witness ==
    /\ last.op = "Department.save"
    /\ last.arg.department_id = NULL
    /\ fault \in StorageFailures
    /\ last.error = fault
    /\ last.self.department_id # NULL
    /\ Department_get_by_id(last.self.department_id) = NULL
    /\ open_connections = 0

----------------------------------------------------------------------------
(* Properties of initialize_database. *)

\* C15: initialize_database() on a store that holds the tables raises
\* nothing and leaves every table definition, every stored row and every
\* key counter as they were, whatever repository calls ran before it.
C15_InitializeIdempotent ==
    [][last'.op = "initialize_database" =>
          /\ last'.error = NoError
          /\ schema' = schema
          /\ DOMAIN schema' = DOMAIN TableDefinitions
          /\ store' = store]_vars

\* initialize_database() has just run on a store with a row in every table
C15_Witness ==
    /\ last.op = "initialize_database"
    /\ departments # {} /\ formations # {} /\ students # <<>>
    /\ subjects # {} /\ enrollments # {}
    /\ \A t \in DOMAIN TableDefinitions : t \in DOMAIN schema /\ schema[t] = TableDefinitions[t]

----------------------------------------------------------------------------
(* Properties of the forms. *)

FormHandlers == {"add_department", "add_formation", "add_student", "add_subject", "enroll_student"}

\* C16: in each form's submit handler, a ValueError raised by save is shown
\* as a warning that carries the error's cause string, any other exception
\* raised by save is shown as the generic unexpected-error message, and in
\* neither case does an exception leave the handler.
C16_SaveErrorsShown ==
    (dialog.called /\ dialog.raised # NoError) =>
        /\ dialog.handler \in FormHandlers
        /\ dialog.escaped = NoError
        /\ IF dialog.raised.exc = "ValueError"
           THEN /\ dialog.shown.kind = "warning"
                /\ dialog.shown.text = "{ve}"
                /\ dialog.shown.args = <<[text |-> dialog.raised.text, args |-> dialog.raised.args]>>
           ELSE /\ dialog.shown.kind = "critical"
                /\ dialog.shown.title = "Error"
                /\ dialog.shown.text \in {"An unexpected error occurred: {e}",
                                          "An unexpected error occurred while saving student: {e}",
                                          "An unexpected error occurred during enrollment: {e}"}

\* a submit whose save raised a ValueError, after which the handler returned
C16_Witness ==
    /\ dialog.called
    /\ dialog.raised # NoError
    /\ dialog.raised.exc = "ValueError"
    /\ dialog.shown.kind = "warning"
    /\ last.op = "Enrollment.save"

\* a text with nothing in it but whitespace
Blank(text) == \A i \in DOMAIN text : text[i] \in Whitespace

\* the submit that d records was made with a required input missing
MissingInput(d) ==
    CASE d.handler = "add_department" -> Blank(d.input.name_input)
      [] d.handler = "add_student" ->
            \/ Blank(d.input.student_id_input)
            \/ Blank(d.input.first_name_input)
            \/ Blank(d.input.last_name_input)
      [] d.handler = "enroll_student" ->
            d.input.student_id = NULL \/ d.input.formation_id = NULL
      [] OTHER -> FALSE

\* C17: a submit with a required input missing (add_department with an
\* empty or whitespace-only name, add_student with an empty or
\* whitespace-only id, first name or last name, enroll_student with no
\* student or no formation selected) returns after a warning without
\* calling save and leaves the store unchanged.
C17_MissingInputNeverSaved ==
    [][MissingInput(dialog') =>
          /\ ~ dialog'.called
          /\ dialog'.shown.kind = "warning"
          /\ dialog'.escaped = NoError
          /\ store' = store
          /\ last' = last]_vars

\* a student was stored, then add_student returned after its warning about
\* a first name of whitespace only
C17_Witness ==
    /\ dialog.handler = "add_student"
    /\ dialog.input.student_id_input = <<" ", "A", " ">>
    /\ dialog.input.first_name_input = <<" ", "\t">>
    /\ ~ dialog.called
    /\ dialog.shown = MessageBox("warning", "Input Error", "First name cannot be empty.", <<>>)
    /\ Len(students) = 1

\* the subjects that the step stores through SubjectWindow.add_subject
SavedThroughWindow ==
    IF dialog'.handler = "add_subject" /\ dialog'.called /\ dialog'.raised = NoError
    THEN subjects' \ subjects
    ELSE {}

\* C18 (as stated): every subject saved through SubjectWindow.add_subject
\* has the formation_id of the window, credits in 1..15 and year in
\* 1..duration_years, for every integer duration_years the window was
\* constructed with, 0 and negative values included.
C18_YearWithinDuration ==
    [][\A r \in SavedThroughWindow :
          /\ r.formation_id = dialog'.input.window.formation_id
          /\ r.credits \in {Some(c) : c \in 1..15}
          /\ r.year \in {Some(y) : y \in 1..dialog'.input.window.duration_years}]_vars

\* C18 (amended): every subject saved through SubjectWindow.add_subject has
\* the formation_id of the window and credits in 1..15; its year is in
\* 1..duration_years when the window was constructed with duration_years
\* >= 1, and is 1 when it was constructed with duration_years <= 0.
C18_YearWithinSpinBox ==
    [][\A r \in SavedThroughWindow :
          /\ r.formation_id = dialog'.input.window.formation_id
          /\ r.credits \in {Some(c) : c \in 1..15}
          /\ IF dialog'.input.window.duration_years >= 1
             THEN r.year \in {Some(y) : y \in 1..dialog'.input.window.duration_years}
             ELSE r.year = Some(1)]_vars

\* a subject of the last year of a formation of more than one year was
\* saved through the window
C18_Witness ==
    /\ dialog.handler = "add_subject"
    /\ dialog.called
    /\ dialog.raised = NoError
    /\ dialog.input.window.duration_years > 1
    /\ last.op = "Subject.save"
    /\ last.self \in subjects
    /\ last.self.year = Some(dialog.input.window.duration_years)
    /\ last.self.credits = Some(15)

----------------------------------------------------------------------------
(* Properties of the subject listing. *)

\* C19: Subject.get_by_formation_and_year(f, y) returns exactly the stored
\* subjects whose formation_id equals f and whose year equals y, each
\* exactly once, and never modifies the store.
C19_SubjectsByFormationAndYear ==
    [][(last'.op = "Subject.get_by_formation_and_year" /\ last'.arg.formation_id # NULL) =>
          /\ store' = store
          /\ \A i \in DOMAIN last'.result : last'.result[i] \in subjects
          /\ \A r \in subjects :
                Cardinality({i \in DOMAIN last'.result : last'.result[i] = r})
                    = IF r.formation_id = last'.arg.formation_id /\ r.year = last'.arg.year
                      THEN 1 ELSE 0]_vars

\* the listing of a formation and a year returned one of the two stored
\* subjects of the formation, the other one being of another year
C19_Witness ==
    /\ last.op = "Subject.get_by_formation_and_year"
    /\ last.arg = [formation_id |-> Some(1), year |-> Some(2)]
    /\ Len(last.result) = 1
    /\ last.result[1] \in subjects
    /\ \E r \in subjects : r.formation_id = Some(1) /\ r.year = Some(1)

----------------------------------------------------------------------------
(* Properties of the enrollment listings. *)

\* C20: in every reachable store state the three enrollment listings agree:
\* get_by_student_and_formation(s, f) returns enrollment e if and only if e
\* occurs in both get_by_student(s) and get_by_formation(f), and those two
\* listings have at most one enrollment in common.
C20_ListingsAgree ==
    \A s \in Opt(StudentIds), f \in Opt(EnrolledFormationIds) :
        LET common == Enrollment_get_by_student(s) \cap Enrollment_get_by_formation(f)
            found == Enrollment_get_by_student_and_formation(s, f)
        IN /\ Cardinality(common) <= 1
           /\ \A e \in enrollments : (found = e) <=> (e \in common)
           /\ (found = NULL) <=> (common = {})

\* two students are enrolled in the formation: its listing has both
\* enrollments, the listing of the first student has one of them, and the
\* lookup of the pair returns that one
C20_Witness ==
    /\ Cardinality(Enrollment_get_by_formation(Some(1))) = 2
    /\ Cardinality(Enrollment_get_by_student(Some("S1001"))) = 1
    /\ Enrollment_get_by_student_and_formation(Some("S1001"), Some(1))
          \in Enrollment_get_by_student(Some("S1001")) \cap Enrollment_get_by_formation(Some(1))

----------------------------------------------------------------------------
(* Properties of calls that interleave. *)

\* processes p and q are in, or have ended, insert-saves of enrollments of
\* the same pair whose pre-checks both found no row
RacingEnrollments(p, q) ==
    /\ p # q
    /\ processes[p].op = "Enrollment.save"
    /\ processes[q].op = "Enrollment.save"
    /\ processes[p].self.student_id # NULL
    /\ processes[p].self.formation_id # NULL
    /\ processes[p].self.student_id = processes[q].self.student_id
    /\ processes[p].self.formation_id = processes[q].self.formation_id
    /\ processes[p].pc \notin {"probe"}
    /\ processes[q].pc \notin {"probe"}
    /\ ~ processes[p].existing
    /\ ~ processes[q].existing

\* C21: when two insert-saves of enrollments of the same pair both run the
\* duplicate pre-check before either inserts, at most one row of the pair
\* is ever stored, and the call that loses fails with ValueError, not with
\* an error of the storage layer, its record's enrollment_id unassigned.
C21_RacingEnrollmentsOneRow ==
    /\ \A r1, r2 \in enrollments :
          ( /\ r1.student_id # NULL
            /\ r1.formation_id # NULL
            /\ r1.student_id = r2.student_id
            /\ r1.formation_id = r2.formation_id ) => r1 = r2
    /\ \A p, q \in Processes :
          RacingEnrollments(p, q) =>
             /\ ~ (processes[p].pc \in {"commit", "returned"} /\ processes[q].pc \in {"commit", "returned"})
             /\ processes[p].pc \in {"raised", "failed"} =>
                   /\ processes[p].error.exc = "ValueError"
                   /\ processes[p].self.enrollment_id = NULL
                   /\ processes[p].statement = ""

\* both pre-checks found nothing; the first process stored its row and the
\* second one failed on the UNIQUE constraint with the ValueError of the
\* handler
C21_Witness ==
    /\ RacingEnrollments(1, 2)
    /\ processes[1].pc = "returned"
    /\ processes[1].self \in enrollments
    /\ processes[2].pc = "failed"
    /\ processes[2].error = EnrollmentSaveError("UNIQUE constraint failed: enrollments.student_id, enrollments.formation_id")
    /\ processes[2].self.enrollment_id = NULL
    /\ Cardinality(enrollments) = 1

\* process p takes the step in which the INSERT of its Student.save, chosen
\* by a probe that found no row, meets a row that another process has
\* stored for the id since
LosingInsert(p) ==
    /\ processes[p].op = "Student.save"
    /\ processes[p].pc = "execute"
    /\ ~ processes[p].existing
    /\ processes[p].self.student_id # NULL
    /\ StudentExists(processes[p].self.student_id)
    /\ processes'[p] # processes[p]

\* C22: when two Student.save calls for the same, initially absent
\* student_id both run the existence probe before either writes, the store
\* never holds two rows for that id, and the call whose insert loses fails
\* with ValueError instead of updating the row.
C22_RacingStudentSaves ==
    [][/\ \A i, j \in 1..Len(students') :
             (students'[i].student_id # NULL /\ students'[i].student_id = students'[j].student_id)
                => i = j
       /\ \A p \in Processes :
             LosingInsert(p) =>
                /\ processes'[p].pc = "raised"
                /\ processes'[p].error.exc = "ValueError"
                /\ processes'[p].statement = ""
                /\ students' = students]_vars

\* both probes found no row; the first process stored John Doe, the second
\* one failed with the ValueError of the handler, and the row is still
\* John Doe's
C22_Witness ==
    /\ processes[1].op = "Student.save"
    /\ processes[1].pc = "returned"
    /\ ~ processes[1].existing
    /\ processes[1].self = Student(Some("S1001"), Some("John"), Some("Doe"))
    /\ processes[2].op = "Student.save"
    /\ processes[2].pc = "failed"
    /\ ~ processes[2].existing
    /\ processes[2].self = Student(Some("S1001"), Some("Jane"), Some("Doe"))
    /\ processes[2].error =
          StudentSaveError(processes[2].self, "UNIQUE constraint failed: students.student_id")
    /\ students = <<processes[1].self>>

\* C23: whenever Student.save for id s returns without error, the store
\* holds, at the moment of that save's commit, a row for s with the saved
\* first_name and last_name, also when a Student.delete(s) of another
\* process runs between the save's existence probe and its write.
C23_SavedStudentStored ==
    [][\A p \in Processes :
          ( /\ processes[p].op = "Student.save"
            /\ processes[p].pc = "commit"
            /\ processes'[p].pc = "returned"
            /\ processes'[p].error = NoError ) =>
             \E i \in 1..Len(students') : students'[i] = processes[p].self]_vars

----------------------------------------------------------------------------
(* Properties of the errors that name their cause. *)

\* C24: the ValueError of Department.save reports that a department with
\* the given name already exists only when another stored department has
\* that name, for every name including None, in the insert and in the
\* update branch.
C24_AlreadyExistsIsTrue ==
    [][( /\ last'.op = "Department.save"
         /\ last'.error = ValueError("Department with name '{name}' already exists.",
                                     <<last'.arg.name>>) ) =>
          \E r \in departments : /\ r.name = last'.arg.name
                                  /\ r.department_id # last'.arg.department_id]_vars

----------------------------------------------------------------------------
(* Properties of rows that outlive the row they refer to. *)

\* C25: Student.delete(s) removes no enrollment row, and neither does the
\* Student.save of a new record with the id s that follows it: whatever
\* Enrollment.get_by_student(s) returned before the delete, it returns after
\* the delete and after the save.
C25_EnrollmentsOutliveStudent ==
    [][\A s \in Opt(ScenarioStudentIds) :
          ( \/ last'.op = "Student.delete" /\ last'.arg = s
            \/ /\ last.op = "Student.delete" /\ last.arg = s
               /\ last'.op = "Student.save" /\ last'.arg.student_id = s ) =>
            Enrollment_get_by_student(s)' = Enrollment_get_by_student(s)]_vars

\* a student saved when no row had its id, whose id enrollments refer to
C25_Witness ==
    /\ last.op = "Student.save"
    /\ last.error = NoError
    /\ Len(students) = 1
    /\ students[1] = last.arg
    /\ Enrollment_get_by_student(last.arg.student_id) # {}

----------------------------------------------------------------------------
(* Properties of the list of enrollments. *)

\* C26: after load_enrollments_list() whose listings returned, the list has
\* exactly one entry per stored enrollment, carrying its key, with
\* 'Unknown Student' exactly for an enrollment whose student_id no stored
\* student has and 'Unknown Formation' exactly for one whose formation_id no
\* stored formation has; and the list is the single entry
\* 'No enrollments found.' exactly when no enrollment is stored.
C26_OneEntryPerEnrollment ==
    (last.op = "EnrollmentWindow.load_enrollments_list" /\ last.error = NoError) =>
        LET items == last.result
            placeholder == <<ListItem(<<"No enrollments found.">>, NULL)>>
        IN /\ (items = placeholder) <=> (enrollments = {})
           /\ \A i \in 1..Len(items) : (items[i].text = <<"No enrollments found.">>) => (enrollments = {})
           /\ enrollments # {} =>
                 /\ Len(items) = Cardinality(enrollments)
                 /\ \A e \in enrollments :
                       \E i \in 1..Len(items) :
                           /\ items[i].data = e.enrollment_id
                           /\ \A j \in 1..Len(items) : items[j].data = e.enrollment_id => j = i
                           /\ (items[i].text[1] = <<"Unknown Student">>) <=>
                                 (~ \E s \in StudentRows : s.student_id = e.student_id)
                           /\ (items[i].text[3] = "Unknown Formation") <=>
                                 (~ \E f \in formations : f.formation_id = e.formation_id)
                           /\ items[i].text[5] = e.enrollment_year[1]

\* the list of two enrollments, one of a stored student and one of a student
\* that is not stored, in a formation that is not stored
C26_Witness ==
    /\ last.op = "EnrollmentWindow.load_enrollments_list"
    /\ last.error = NoError
    /\ Cardinality(enrollments) = 2
    /\ Len(last.result) = 2
    /\ \E i, j \in 1..2 : /\ last.result[i].text[1] = <<"Unknown Student">>
                           /\ last.result[j].text[1] = <<"John", " ", "Doe">>
                           /\ last.result[i].text[3] = "Unknown Formation"

----------------------------------------------------------------------------
(* Properties of the AUTOINCREMENT keys. *)

\* the rows of a keyed table, and the key of a row or record of it
KeyedRows(t) ==
    CASE t = "departments" -> departments
      [] t = "formations" -> formations
      [] t = "subjects" -> subjects
      [] t = "enrollments" -> enrollments

KeyOf(t, r) ==
    CASE t = "departments" -> r.department_id
      [] t = "formations" -> r.formation_id
      [] t = "subjects" -> r.subject_id
      [] t = "enrollments" -> r.enrollment_id

SaveOf(t) ==
    CASE t = "departments" -> "Department.save"
      [] t = "formations" -> "Formation.save"
      [] t = "subjects" -> "Subject.save"
      [] t = "enrollments" -> "Enrollment.save"

\* the keys table t has handed out: the counter of the table starts at 0 and
\* an insert hands out the counter plus one (both are part of C27)
HandedOut(t) == 1..sqlite_sequence[t]

\* C27: the key that an insert-save assigns in a table is none of the keys
\* handed out in that table before, whether their rows are stored or
\* deleted; no step takes a handed-out key back; so a department key that
\* was handed out, has no row and is referred to by a formation has no row
\* after any step either.
C27_KeysNeverReused ==
    [][/\ \A t \in KeyedTables :
            /\ HandedOut(t) \subseteq HandedOut(t)'
            /\ {KeyOf(t, r)[1] : r \in KeyedRows(t)'} \subseteq HandedOut(t)'
            /\ ( /\ last'.op = SaveOf(t)
                 /\ KeyOf(t, last'.arg) = NULL
                 /\ last'.error = NoError ) =>
                  /\ KeyOf(t, last'.self) # NULL
                  /\ KeyOf(t, last'.self)[1] \notin HandedOut(t)
                  /\ HandedOut(t)' = HandedOut(t) \cup {KeyOf(t, last'.self)[1]}
                  /\ KeyedRows(t)' = KeyedRows(t) \cup {r \in KeyedRows(t)' : KeyOf(t, r) = KeyOf(t, last'.self)}
            /\ ~ ( /\ last'.op = SaveOf(t)
                   /\ KeyOf(t, last'.arg) = NULL
                   /\ last'.error = NoError ) =>
                  /\ HandedOut(t)' = HandedOut(t)
                  /\ {KeyOf(t, r) : r \in KeyedRows(t)'} \subseteq {KeyOf(t, r) : r \in KeyedRows(t)}
       /\ \A f \in formations :
            ( /\ f.department_id # NULL
              /\ f.department_id[1] \in HandedOut("departments")
              /\ Department_get_by_id(f.department_id) = NULL ) =>
                ~ \E d \in departments' : d.department_id = f.department_id]_vars

\* a department saved after the department with key 1 was deleted, while a
\* formation refers to key 1
C27_Witness ==
    /\ last.op = "Department.save"
    /\ last.arg.department_id = NULL
    /\ last.error = NoError
    /\ last.self.department_id = Some(2)
    /\ Department_get_by_id(Some(1)) = NULL
    /\ Department_get_by_id(Some(2)) # NULL
    /\ \E f \in formations : f.department_id = Some(1)

\* C28: save of a Department, Formation, Subject or Enrollment record whose
\* key no stored row has, be it a key never handed out or the key of a
\* deleted row, returns without error and leaves every table as it is; the
\* record keeps its key, and no row has that key afterwards.
C28_SaveOfAbsentKeyChangesNothing ==
    [][\A t \in KeyedTables :
          ( /\ last'.op = SaveOf(t)
            /\ KeyOf(t, last'.arg) # NULL
            /\ ~ \E r \in KeyedRows(t) : KeyOf(t, r) = KeyOf(t, last'.arg) ) =>
              /\ last'.error = NoError
              /\ last'.self = last'.arg
              /\ UNCHANGED store
              /\ ~ \E r \in KeyedRows(t)' : KeyOf(t, r) = KeyOf(t, last'.arg)]_vars

\* an enrollment saved with the key of a deleted row, and nothing stored
C28_Witness ==
    /\ last.op = "Enrollment.save"
    /\ last.arg.enrollment_id = Some(1)
    /\ 1 \in HandedOut("enrollments")
    /\ Enrollment_get_by_id(Some(1)) = NULL
    /\ last.error = NoError
    /\ last.rowcount = 0

----------------------------------------------------------------------------
(* Properties of a save that fails. *)

\* C29: when the save of a Department, Formation, Subject or Enrollment
\* record without a key raises the domain error, the record still has no
\* key and every table is as it was; and when the next call saves a record
\* of that table without a key and returns, it has inserted a row.
C29_FailedInsertLeavesNoKey ==
    [][\A t \in KeyedTables :
          /\ ( /\ last'.op = SaveOf(t)
               /\ KeyOf(t, last'.arg) = NULL
               /\ last'.error.exc = "ValueError" ) =>
                 /\ KeyOf(t, last'.self) = NULL
                 /\ last'.self = last'.arg
                 /\ UNCHANGED store
          /\ ( /\ last.op = SaveOf(t)
               /\ last.error.exc = "ValueError"
               /\ last'.op = SaveOf(t)
               /\ KeyOf(t, last'.arg) = KeyOf(t, last.self)
               /\ last'.error = NoError ) =>
                 \/ KeyOf(t, last.arg) # NULL
                 \/ /\ KeyOf(t, last'.self) # NULL
                    /\ KeyOf(t, last'.self)[1] \notin HandedOut(t)
                    /\ \E r \in KeyedRows(t)' \ KeyedRows(t) : KeyOf(t, r) = KeyOf(t, last'.self)]_vars

\* a department saved without a key under the name of a stored department:
\* the save has failed and the record has no key
C29_Witness ==
    /\ last.op = "Department.save"
    /\ last.arg.department_id = NULL
    /\ last.error.exc = "ValueError"
    /\ last.self.department_id = NULL
    /\ \E r \in departments : r.name = last.arg.name

====
